---- MODULE Spec2Model ----
(***************************************************************************)
(* CCTNS Copilot Engine: the SQL gateway.                                  *)
(*                                                                         *)
(*   models/sql_executor.py     SQLExecutor (validation, execution, stats) *)
(*   models/nl2sql_processor.py NL2SQLProcessor (rule-based translator)    *)
(*   agents/query_agent.py      QueryAgent (report of _validate_query)     *)
(*   api/main.py                process_query (the orchestrated run)       *)
(*                                                                         *)
(* A Python str is a sequence of one-character strings, so that upper(),   *)
(* strip(), `in`, startswith(), count() and re.search() are computed the   *)
(* way Python computes them.                                               *)
(***************************************************************************)
EXTENDS Integers, Sequences, FiniteSets, TLC

(***************************************************************************)
(* Python str operations                                                   *)
(***************************************************************************)
Lowercase ==
    <<"a","b","c","d","e","f","g","h","i","j","k","l","m",
      "n","o","p","q","r","s","t","u","v","w","x","y","z">>

Uppercase ==
    <<"A","B","C","D","E","F","G","H","I","J","K","L","M",
      "N","O","P","Q","R","S","T","U","V","W","X","Y","Z">>

Digits == {"0","1","2","3","4","5","6","7","8","9"}

UpperMap == [c \in {Lowercase[i] : i \in 1..26} |->
                Uppercase[CHOOSE i \in 1..26 : Lowercase[i] = c]]

LowerMap == [c \in {Uppercase[i] : i \in 1..26} |->
                Lowercase[CHOOSE i \in 1..26 : Uppercase[i] = c]]

CharUpper(c) == IF c \in DOMAIN UpperMap THEN UpperMap[c] ELSE c

CharLower(c) == IF c \in DOMAIN LowerMap THEN LowerMap[c] ELSE c

\* str.upper()
Upper(s) == [i \in 1..Len(s) |-> CharUpper(s[i])]

\* str.lower()
Lower(s) == [i \in 1..Len(s) |-> CharLower(s[i])]

\* str.isspace() of one character
IsSpace(c) == c \in {" ", "\n", "\t"}

IsLetter(c) == c \in DOMAIN UpperMap \/ c \in DOMAIN LowerMap

\* a character of \w
IsWordChar(c) == IsLetter(c) \/ c \in Digits \/ c = "_"

\* sub occurs in s at position j
Occurs(s, sub, j) ==
    /\ j >= 1
    /\ j + Len(sub) - 1 <= Len(s)
    /\ \A k \in 1..Len(sub) : s[j + k - 1] = sub[k]

\* str.find(sub, i), 1-based, 0 when there is none
FindFrom(s, sub, i) ==
    IF \E j \in i..(Len(s) - Len(sub) + 1) : Occurs(s, sub, j)
    THEN CHOOSE j \in i..(Len(s) - Len(sub) + 1) :
            /\ Occurs(s, sub, j)
            /\ \A h \in i..(j - 1) : ~Occurs(s, sub, h)
    ELSE 0

\* sub in s
Contains(sub, s) == \E j \in 1..(Len(s) - Len(sub) + 1) : Occurs(s, sub, j)

\* s.startswith(p)
StartsWith(s, p) == Occurs(s, p, 1)

RECURSIVE CountFrom(_, _, _)
CountFrom(s, sub, i) ==
    LET Found(j) == IF j = 0 THEN 0 ELSE 1 + CountFrom(s, sub, j + Len(sub))
    IN  Found(FindFrom(s, sub, i))

\* s.count(sub): occurrences that do not overlap, left to right
Count(s, sub) == CountFrom(s, sub, 1)

\* s.strip()
Strip(s) ==
    IF \A i \in 1..Len(s) : IsSpace(s[i]) THEN <<>>
    ELSE LET a == CHOOSE i \in 1..Len(s) :
                    ~IsSpace(s[i]) /\ \A h \in 1..(i - 1) : IsSpace(s[h])
             b == CHOOSE i \in 1..Len(s) :
                    ~IsSpace(s[i]) /\ \A h \in (i + 1)..Len(s) : IsSpace(s[h])
         IN  SubSeq(s, a, b)

RECURSIVE SplitLinesFrom(_, _)
SplitLinesFrom(s, i) ==
    LET Found(j) == IF j = 0 THEN <<SubSeq(s, i, Len(s))>>
                    ELSE <<SubSeq(s, i, j - 1)>> \o SplitLinesFrom(s, j + 1)
    IN  Found(FindFrom(s, <<"\n">>, i))

\* the lines of s: the stretches a regular expression's '.' can cross
SplitLines(s) == SplitLinesFrom(s, 1)

RECURSIVE InOrderFrom(_, _, _, _)
InOrderFrom(line, pieces, k, i) ==
    LET Found(j) == j # 0 /\ InOrderFrom(line, pieces, k + 1, j + Len(pieces[k]))
    IN  k > Len(pieces) \/ Found(FindFrom(line, pieces[k], i))

\* re.search(p1 + ".*" + p2 + ... + ".*" + pn, s, re.IGNORECASE): the literal
\* pieces in this order on one line ('.' does not match a newline); a trailing
\* ".*" matches the empty string. The pieces are given in upper case.
ReSearch(pieces, s) ==
    LET OnSomeLine(lines) ==
            \E n \in 1..Len(lines) : InOrderFrom(Upper(lines[n]), pieces, 1, 1)
    IN  OnSomeLine(SplitLines(s))

(***************************************************************************)
(* Words of SQL                                                            *)
(***************************************************************************)
W_SELECT == <<"S","E","L","E","C","T">>
W_FROM   == <<"F","R","O","M">>
W_JOIN   == <<"J","O","I","N">>
W_WHERE  == <<"W","H","E","R","E">>
W_DROP   == <<"D","R","O","P">>
W_DELETE == <<"D","E","L","E","T","E">>
W_UPDATE == <<"U","P","D","A","T","E">>
W_INSERT == <<"I","N","S","E","R","T">>
W_ALTER  == <<"A","L","T","E","R">>
W_CREATE == <<"C","R","E","A","T","E">>
W_TRUNCATE == <<"T","R","U","N","C","A","T","E">>
W_REPLACE  == <<"R","E","P","L","A","C","E">>
W_MERGE    == <<"M","E","R","G","E">>
W_GRANT    == <<"G","R","A","N","T">>
W_REVOKE   == <<"R","E","V","O","K","E">>
W_EXECUTE  == <<"E","X","E","C","U","T","E">>
W_EXEC     == <<"E","X","E","C">>
W_CALL     == <<"C","A","L","L">>
W_DECLARE  == <<"D","E","C","L","A","R","E">>
W_BEGIN    == <<"B","E","G","I","N">>
W_END      == <<"E","N","D">>

\* a message built by an f-string: the literal text and the value put into it
Msg(text, value) == [prefix |-> "", text |-> text, arg |-> value]

\* f"{prefix}{message}"
Prefixed(prefix, message) == [message EXCEPT !.prefix = prefix]

(***************************************************************************)
(* SQLExecutor._validate_sql_security                                      *)
(***************************************************************************)
\* dangerous_keywords, in the order the loop tries them
dangerous_keywords ==
    <<W_DROP, W_DELETE, W_UPDATE, W_INSERT, W_ALTER, W_CREATE,
      W_TRUNCATE, W_REPLACE, W_MERGE, W_GRANT, W_REVOKE,
      W_EXECUTE, W_EXEC, W_CALL, W_DECLARE, W_BEGIN, W_END>>

\* injection_patterns, in the order the loop tries them: the source of each
\* regular expression and its literal pieces (joined by ".*"), in upper case
\* because every search is re.IGNORECASE
injection_patterns ==
    << [source |-> <<"'",".","*","O","R",".","*","'",".","*","=","'",".","*","'">>,
        pieces |-> << <<"'">>, <<"O","R">>, <<"'">>, <<"=","'">>, <<"'">> >>],
       [source |-> <<"'",".","*","U","N","I","O","N",".","*","S","E","L","E","C","T">>,
        pieces |-> << <<"'">>, <<"U","N","I","O","N">>, W_SELECT >>],
       [source |-> <<"-","-">>,
        pieces |-> << <<"-","-">> >>],
       [source |-> <<"/","\\","*",".","*","\\","*","/">>,
        pieces |-> << <<"/","*">>, <<"*","/">> >>],
       [source |-> <<"x","p","_","c","m","d","s","h","e","l","l">>,
        pieces |-> << <<"X","P","_","C","M","D","S","H","E","L","L">> >>],
       [source |-> <<"s","p","_",".","*">>,
        pieces |-> << <<"S","P","_">> >>] >>

\* the JOIN limit of the complexity check
MaxJoins == 10

\* the SELECT limit of the complexity check
MaxSelects == 5

\* the test of one dangerous keyword against sql_upper
KeywordHit(sql_upper, keyword) ==
    \/ Contains(<<" ">> \o keyword \o <<" ">>, <<" ">> \o sql_upper \o <<" ">>)
    \/ StartsWith(sql_upper, keyword)

\* the test of one injection pattern against the statement as given
PatternHit(sql, pattern) == ReSearch(pattern.pieces, sql)

\* the JOIN count the complexity check compares with the limit
JoinCount(sql) == Count(sql, W_JOIN)

\* the SELECT count the complexity check compares with the limit
SelectCount(sql) == Count(sql, W_SELECT)

ValidateSqlSecurity(sql) ==
    LET sql_upper == Strip(Upper(sql))
        hitK == {k \in 1..Len(dangerous_keywords) :
                    KeywordHit(sql_upper, dangerous_keywords[k])}
        hitP == {p \in 1..Len(injection_patterns) :
                    PatternHit(sql, injection_patterns[p])}
        firstK == CHOOSE k \in hitK : \A h \in hitK : k <= h
        firstP == CHOOSE p \in hitP : \A h \in hitP : p <= h
    IN  IF hitK # {}
        THEN [valid |-> FALSE,
              reason |-> Msg("Dangerous keyword '{keyword}' not allowed",
                             dangerous_keywords[firstK])]
        ELSE IF ~StartsWith(sql_upper, W_SELECT)
        THEN [valid |-> FALSE,
              reason |-> Msg("Only SELECT statements are allowed", <<>>)]
        ELSE IF hitP # {}
        THEN [valid |-> FALSE,
              reason |-> Msg("Potential SQL injection detected: {pattern}",
                             injection_patterns[firstP].source)]
        ELSE IF JoinCount(sql) > MaxJoins
        THEN [valid |-> FALSE,
              reason |-> Msg("Too many JOINs (max 10 allowed)", <<>>)]
        ELSE IF SelectCount(sql) > MaxSelects
        THEN [valid |-> FALSE,
              reason |-> Msg("Too many subqueries (max 5 allowed)", <<>>)]
        ELSE [valid |-> TRUE,
              reason |-> Msg("Security validation passed", <<>>)]

(***************************************************************************)
(* sqlparse.parse, as far as the program reads its result: the leaf tokens *)
(* (ttype, value) of statement.flatten() and the split into statements.    *)
(* The lexer gives every leaf token a token type; only a token group has   *)
(* ttype None, and flatten() yields no group.                              *)
(* A run of blanks stands as one Whitespace token where the lexer yields    *)
(* one token for each blank: the program reads of a white-space token only *)
(* that it is white space.                                                 *)
(***************************************************************************)
TNone == "None"

W_LEFT  == <<"L","E","F","T">>
W_RIGHT == <<"R","I","G","H","T">>
W_INNER == <<"I","N","N","E","R">>
W_OUTER == <<"O","U","T","E","R">>
W_UNKNOWN == <<"U","N","K","N","O","W","N">>

\* sqlparse.keywords: the words the lexer types Keyword.DML
KeywordsDML ==
    {W_SELECT, W_INSERT, W_DELETE, W_UPDATE, W_REPLACE, W_MERGE,
     <<"U","P","S","E","R","T">>}

\* sqlparse.keywords: the words the lexer types Keyword.DDL
KeywordsDDL == {W_DROP, W_CREATE, W_ALTER}

\* sqlparse.keywords: words the lexer types Keyword (those that statements of
\* this application use)
KeywordsPlain ==
    {W_FROM, W_WHERE, W_JOIN, W_LEFT, W_RIGHT, W_INNER, W_OUTER,
     W_TRUNCATE, W_GRANT, W_REVOKE, W_EXECUTE, W_EXEC, W_CALL, W_DECLARE,
     W_BEGIN, W_END,
     <<"T","A","B","L","E">>, <<"O","N">>, <<"A","S">>, <<"I","N">>,
     <<"A","N","D">>, <<"O","R">>, <<"B","Y">>, <<"G","R","O","U","P">>,
     <<"O","R","D","E","R">>, <<"U","N","I","O","N">>, <<"D","E","S","C">>,
     <<"S","Y","S","D","A","T","E">>}

\* the token type of a word
WordType(word) ==
    IF Upper(word) \in KeywordsDML THEN "Keyword.DML"
    ELSE IF Upper(word) \in KeywordsDDL THEN "Keyword.DDL"
    ELSE IF Upper(word) \in KeywordsPlain THEN "Keyword"
    ELSE "Name"

\* ttype in sqlparse.tokens.Keyword: Keyword or one of its subtypes
InKeyword(ttype) == ttype \in {"Keyword", "Keyword.DML", "Keyword.DDL"}

IsDigit(c) == c \in Digits

IsComparison(c) == c \in {"<", ">", "=", "~", "!"}

\* membership of a character in a lexer character class
InClass(c, class) ==
    CASE class = "word" -> IsWordChar(c)
      [] class = "digit" -> IsDigit(c)
      [] class = "comparison" -> IsComparison(c)
      [] class = "space" -> IsSpace(c) /\ c # "\n"

\* the last position of the run of characters of the class that starts at i
RunEnd(s, i, class) ==
    CHOOSE j \in i..Len(s) :
        /\ \A k \in (i + 1)..j : InClass(s[k], class)
        /\ (j = Len(s) \/ ~InClass(s[j + 1], class))

\* the token that starts at position i: its type and its last position
TokenAt(s, i) ==
    LET c == s[i]
        nl == FindFrom(s, <<"\n">>, i)
        close == FindFrom(s, <<"*","/">>, i + 2)
        quote == FindFrom(s, <<"'">>, i + 1)
    IN  IF Occurs(s, <<"-","-">>, i)
        THEN [ttype |-> "Comment.Single", last |-> IF nl = 0 THEN Len(s) ELSE nl]
        ELSE IF Occurs(s, <<"/","*">>, i) /\ close # 0
        THEN [ttype |-> "Comment.Multiline", last |-> close + 1]
        ELSE IF c = "\n" THEN [ttype |-> "Newline", last |-> i]
        ELSE IF IsSpace(c)
        THEN [ttype |-> "Whitespace", last |-> RunEnd(s, i, "space")]
        ELSE IF c = "*" THEN [ttype |-> "Wildcard", last |-> i]
        ELSE IF c = "'" /\ quote # 0
        THEN [ttype |-> "String.Single", last |-> quote]
        ELSE IF IsDigit(c)
        THEN [ttype |-> "Number.Integer", last |-> RunEnd(s, i, "digit")]
        ELSE IF IsWordChar(c)
        THEN [ttype |-> WordType(SubSeq(s, i, RunEnd(s, i, "word"))),
              last |-> RunEnd(s, i, "word")]
        ELSE IF c \in {";", ":", "(", ")", "[", "]", ",", "."}
        THEN [ttype |-> "Punctuation", last |-> i]
        ELSE IF IsComparison(c)
        THEN [ttype |-> "Operator.Comparison", last |-> RunEnd(s, i, "comparison")]
        ELSE IF c \in {"+", "/", "@", "#", "%", "^", "&", "|", "-"}
        THEN [ttype |-> "Operator", last |-> i]
        ELSE [ttype |-> "Error", last |-> i]

\* the first n tokens from position i on, and the position after them
RECURSIVE LexRun(_, _, _)
LexRun(s, i, n) ==
    LET Cons(token, rest) == [tokens |-> <<token>> \o rest.tokens, next |-> rest.next]
        Token(t) == Cons([ttype |-> t.ttype, value |-> SubSeq(s, i, t.last)],
                         LexRun(s, t.last + 1, n - 1))
    IN  IF n = 0 \/ i > Len(s) THEN [tokens |-> <<>>, next |-> i]
        ELSE Token(TokenAt(s, i))

\* the tokens from position i on, taken sixteen at a time
RECURSIVE LexFrom(_, _)
LexFrom(s, i) ==
    LET Run(run) == run.tokens \o LexFrom(s, run.next)
    IN  IF i > Len(s) THEN <<>> ELSE Run(LexRun(s, i, 16))

\* the leaf tokens of the text
Lex(s) == LexFrom(s, 1)

IsWhitespaceToken(t) == t.ttype \in {"Whitespace", "Newline"}

\* the members of a sequence at the positions kept, in their order
SelectAt(seq, keep) ==
    LET at == keep \cap (1..Len(seq))
        Nth(n) == CHOOSE p \in at : Cardinality({q \in at : q <= p}) = n
    IN  [n \in 1..Cardinality(at) |-> seq[Nth(n)]]

\* StatementSplitter: a statement ends with its ';' and the white space and
\* line comments after it, and the next one starts at the token after those;
\* what is left at the end is a statement unless it is white space only
SplitStatements(tokens) ==
    LET n == Len(tokens)
        IsSemicolon(k) == tokens[k].ttype = "Punctuation" /\ tokens[k].value = <<";">>
        Consumed(k) == IsWhitespaceToken(tokens[k]) \/ tokens[k].ttype = "Comment.Single"
        \* the start of the statement after the one that the ';' at k ends
        StartAfter(k) ==
            IF \A q \in (k + 1)..n : Consumed(q) THEN n + 1
            ELSE CHOOSE q \in (k + 1)..n :
                    ~Consumed(q) /\ \A h \in (k + 1)..(q - 1) : Consumed(h)
        starts == {1} \cup {StartAfter(k) : k \in {h \in 1..n : IsSemicolon(h)}}
        first == SelectAt([k \in 1..(n + 1) |-> k], starts \ {n + 1})
        last(j) == IF j = Len(first) THEN n ELSE first[j + 1] - 1
        statements == [j \in 1..Len(first) |-> SubSeq(tokens, first[j], last(j))]
    IN  SelectAt(statements,
                 {j \in 1..Len(statements) :
                    \E k \in 1..Len(statements[j]) : ~IsWhitespaceToken(statements[j][k])})

\* sqlparse.parse(sql): the statements, each as its flattened tokens
SqlParse(sql) == SplitStatements(Lex(sql))

(***************************************************************************)
(* SQLExecutor._parse_and_validate_sql and its helpers                     *)
(***************************************************************************)
\* value.strip().split()[0] of a value that is not white space only
FirstWord(value) ==
    LET v == Strip(value)
        ends == {j \in 1..Len(v) : IsSpace(v[j])}
    IN  IF ends = {} THEN v
        ELSE SubSeq(v, 1, (CHOOSE j \in ends : \A h \in ends : j <= h) - 1)

GetQueryType(statement) ==
    LET kw == {k \in 1..Len(statement) : InKeyword(statement[k].ttype)}
    IN  IF kw = {} THEN W_UNKNOWN
        ELSE Upper(statement[CHOOSE k \in kw : \A h \in kw : k <= h].value)

\* the words after which _extract_tables takes no table name
NotTableWords == {W_WHERE, W_JOIN, W_LEFT, W_RIGHT, W_INNER, W_OUTER}

\* token.ttype is sqlparse.tokens.Keyword and token.value.upper() == word
IsKeywordToken(t, word) == t.ttype = "Keyword" /\ Upper(t.value) = word

\* _extract_tables: after the first FROM, the first word of every token that
\* has no token type, unless it is one of the words above
ExtractTables(statement) ==
    LET from_seen(i) == \E j \in 1..(i - 1) : IsKeywordToken(statement[j], W_FROM)
        taken == {i \in 1..Len(statement) :
                    /\ ~IsKeywordToken(statement[i], W_FROM)
                    /\ from_seen(i)
                    /\ statement[i].ttype = TNone
                    /\ Strip(statement[i].value) # <<>>
                    /\ Upper(FirstWord(statement[i].value)) \notin NotTableWords}
        found == SelectAt(statement, taken)
    IN  [k \in 1..Len(found) |-> FirstWord(found[k].value)]

\* _extract_columns: between SELECT and the FROM that ends the loop, every
\* token that has no token type, but ',' and '*'
ExtractColumns(statement) ==
    LET select_seen(i) == \E j \in 1..(i - 1) : IsKeywordToken(statement[j], W_SELECT)
        breaks(i) == /\ ~IsKeywordToken(statement[i], W_SELECT)
                     /\ select_seen(i)
                     /\ IsKeywordToken(statement[i], W_FROM)
        taken == {i \in 1..Len(statement) :
                    /\ \A j \in 1..i : ~breaks(j)
                    /\ ~IsKeywordToken(statement[i], W_SELECT)
                    /\ select_seen(i)
                    /\ statement[i].ttype = TNone
                    /\ Strip(statement[i].value) # <<>>
                    /\ Strip(statement[i].value) \notin {<<",">>, <<"*">>}}
        found == SelectAt(statement, taken)
    IN  [k \in 1..Len(found) |-> Strip(found[k].value)]

allowed_tables ==
    { <<"D","I","S","T","R","I","C","T","_","M","A","S","T","E","R">>,
      <<"S","T","A","T","I","O","N","_","M","A","S","T","E","R">>,
      <<"O","F","F","I","C","E","R","_","M","A","S","T","E","R">>,
      <<"C","R","I","M","E","_","T","Y","P","E","_","M","A","S","T","E","R">>,
      <<"F","I","R">>,
      <<"A","R","R","E","S","T">> }

\* the result when nothing was extracted (the keys a rejecting dict lacks)
NoQueryInfo(reason) ==
    [valid |-> FALSE, reason |-> reason,
     query_type |-> <<>>, tables |-> <<>>, columns |-> <<>>]

\* (each value the body names is computed once and handed on as an argument)
ParseAndValidateSql(sql) ==
    LET Checked(statement, tables, bad) ==
            IF bad # {}
            THEN NoQueryInfo(Msg("Access to table '{table}' not allowed",
                                 tables[CHOOSE k \in bad : \A h \in bad : k <= h]))
            ELSE [valid |-> TRUE, reason |-> Msg("", <<>>),
                  query_type |-> GetQueryType(statement),
                  tables |-> tables,
                  columns |-> ExtractColumns(statement)]
        Extracted(statement, tables) ==
            Checked(statement, tables,
                    {k \in 1..Len(tables) : Upper(tables[k]) \notin allowed_tables})
        Parsed(parsed) ==
            IF parsed = <<>>
            THEN NoQueryInfo(Msg("Failed to parse SQL", <<>>))
            ELSE Extracted(parsed[1], ExtractTables(parsed[1]))
    IN  Parsed(SqlParse(sql))


(***************************************************************************)
(* QueryAgent._validate_query and its checks                               *)
(***************************************************************************)
\* dangerous_ops, in the order the loop tries them
dangerous_ops == <<W_DROP, W_DELETE, W_UPDATE, W_INSERT, W_ALTER, W_CREATE>>

CheckQuerySecurity(sql) ==
    LET sql_upper == Upper(sql)
        ops == SelectAt(dangerous_ops,
                        {k \in 1..Len(dangerous_ops) : Contains(dangerous_ops[k], sql_upper)})
        op_warnings == [k \in 1..Len(ops) |->
                            Msg("Dangerous operation detected: {op}", ops[k])]
        warnings == IF Contains(<<"-","-">>, sql) \/ Contains(<<"/","*">>, sql)
                    THEN Append(op_warnings,
                                Msg("Potential SQL injection: comments detected", <<>>))
                    ELSE op_warnings
    IN  [safe |-> Len(warnings) = 0, warnings |-> warnings]

CheckQueryPerformance(sql) ==
    LET sql_upper == Upper(sql)
        cartesian == Count(sql_upper, W_FROM) > 1 /\ ~Contains(W_WHERE, sql_upper)
        functions == \E func \in {<<"U","P","P","E","R","(">>, <<"L","O","W","E","R","(">>, <<"S","U","B","S","T","R","(">>} :
                        Contains(func, sql_upper)
    IN  (IF cartesian
         THEN <<"Potential Cartesian product: multiple tables without WHERE clause">>
         ELSE <<>>)
        \o (IF functions
            THEN <<"Functions in WHERE clause may prevent index usage">>
            ELSE <<>>)

\* the report; security_warnings is the key the code adds only to an unsafe
\* report, and is empty otherwise
ValidateQuery(sql) ==
    LET security_check == CheckQuerySecurity(sql)
    IN  [syntax_valid |-> SqlParse(sql) # <<>>,
         security_valid |-> security_check.safe,
         security_warnings |-> security_check.warnings,
         performance_warnings |-> CheckQueryPerformance(sql),
         semantic_warnings |-> <<>>]

(***************************************************************************)
(* SQLExecutor: statistics, responses, the database call                   *)
(***************************************************************************)
RECURSIVE Gcd(_, _)
Gcd(a, b) == IF b = 0 THEN a ELSE Gcd(b, a % b)

\* a float that the program computes by +, * and /, kept as the exact fraction
Frac(n, d) == IF n = 0 THEN [num |-> 0, den |-> 1]
              ELSE [num |-> n \div Gcd(n, d), den |-> d \div Gcd(n, d)]

InitialStats ==
    [total_queries |-> 0, successful_queries |-> 0, failed_queries |-> 0,
     avg_execution_time |-> Frac(0, 1)]

UpdateExecutionStats(stats, execution_time, success) ==
    LET counted == IF success
                   THEN [stats EXCEPT !.successful_queries = @ + 1]
                   ELSE [stats EXCEPT !.failed_queries = @ + 1]
        total_queries == counted.total_queries
        current_avg == counted.avg_execution_time
    IN  [counted EXCEPT !.avg_execution_time =
            Frac(current_avg.num * (total_queries - 1) + execution_time * current_avg.den,
                 current_avg.den * total_queries)]

\* the dict of _error_response (its timestamp left out)
ErrorResponse(error_message) ==
    [success |-> FALSE, error |-> error_message,
     results |-> <<>>, columns |-> <<>>, row_count |-> 0, execution_time |-> 0]

\* str(e) of the exception _execute_with_timeout raises for a driver exception
QueryExecutionFailed(detail) == Msg("Query execution failed: {str(e)}", detail)

\* settings.SQL_MAX_RESULTS
SQL_MAX_RESULTS == 1000

\* f"ALTER SESSION SET query_timeout = {self.timeout}" with settings.SQL_TIMEOUT:
\* 'ALTER SESSION SET query_timeout = 30'
AlterSessionTimeout ==
    <<"A","L","T","E","R"," ","S","E","S","S","I","O","N"," ","S","E","T"," ","q","u","e","r","y","_","t","i","m","e","o","u","t"," ","="," ","3","0">>

\* result.fetchmany(n)
FetchMany(rows, n) == SubSeq(rows, 1, IF Len(rows) < n THEN Len(rows) ELSE n)

\* _execute_with_timeout against a database that behaves as world says: what the
\* connection was given to execute, and the dict returned or the exception raised
ExecuteWithTimeout(sql, world) ==
    IF world.kind = "raise" /\ world.at = "connect"
    THEN [sent |-> <<>>, raised |-> TRUE, error |-> QueryExecutionFailed(world.detail),
          data |-> <<>>, columns |-> <<>>]
    ELSE IF world.kind = "raise" /\ world.at = "session"
    THEN [sent |-> <<AlterSessionTimeout>>, raised |-> TRUE,
          error |-> QueryExecutionFailed(world.detail), data |-> <<>>, columns |-> <<>>]
    ELSE IF world.kind = "raise" /\ world.at = "query"
    THEN [sent |-> <<AlterSessionTimeout, sql>>, raised |-> TRUE,
          error |-> QueryExecutionFailed(world.detail), data |-> <<>>, columns |-> <<>>]
    ELSE [sent |-> <<AlterSessionTimeout, sql>>, raised |-> FALSE,
          error |-> Msg("", <<>>),
          data |-> FetchMany(world.rows, SQL_MAX_RESULTS), columns |-> world.columns]


(***************************************************************************)
(* NL2SQLProcessor: the rule-based translator                              *)
(***************************************************************************)
N_crimes == <<"c","r","i","m","e","s">>
N_district == <<"d","i","s","t","r","i","c","t">>
N_officer == <<"o","f","f","i","c","e","r">>
N_arrest == <<"a","r","r","e","s","t">>
N_performance == <<"p","e","r","f","o","r","m","a","n","c","e">>
N_fir == <<"f","i","r">>
N_count == <<"c","o","u","n","t">>
N_today == <<"t","o","d","a","y">>
N_month == <<"m","o","n","t","h">>

\* str.title() of a word: a letter is upper-cased after a non-letter (and at
\* the start) and lower-cased after a letter
Title(s) ==
    [i \in 1..Len(s) |-> IF i = 1 \/ ~IsLetter(s[i - 1]) THEN CharUpper(s[i])
                        ELSE CharLower(s[i])]

districts ==
    << <<"g","u","n","t","u","r">>,
       <<"v","i","j","a","y","a","w","a","d","a">>,
       <<"v","i","s","a","k","h","a","p","a","t","n","a","m">>,
       <<"t","i","r","u","p","a","t","i">>,
       <<"k","u","r","n","o","o","l">> >>

\* a value that may be None
None == [is_none |-> TRUE, value |-> <<>>]

Some(value) == [is_none |-> FALSE, value |-> value]

\* _extract_district that returns what the text holds from the district name
\* on, in place of the name of the list
ExtractDistrictFromText(query) ==
    IF \E i \in 1..Len(districts) : Contains(districts[i], query)
    THEN LET first == CHOOSE i \in 1..Len(districts) :
                          /\ Contains(districts[i], query)
                          /\ \A j \in 1..(i - 1) : ~Contains(districts[j], query)
         IN  Some(Title(SubSeq(query, FindFrom(query, districts[first], 1), Len(query))))
    ELSE None

\* _extract_district(query): the title-cased name of the first district of the
\* list that the query contains, or None
ExtractDistrict(query) ==
    IF \E i \in 1..Len(districts) : Contains(districts[i], query)
    THEN LET first == CHOOSE i \in 1..Len(districts) :
                          /\ Contains(districts[i], query)
                          /\ \A j \in 1..(i - 1) : ~Contains(districts[j], query)
         IN  Some(Title(districts[first]))
    ELSE None

\* the district summary template up to the opening quote of the district name:
\* '\n    SELECT ct.description as crime_type, COUNT(*) as count\n    FROM FIR f\n
\* JOIN DISTRICT_MASTER d ON ...\n    JOIN CRIME_TYPE_MASTER ct ON ...\n
\* WHERE d.district_name = \'' (every line indented by 16 spaces)
DistrictSummaryHead ==
    <<"\n"," "," "," "," "," "," "," "," "," "," "," "," "," "," "," "," ","S","E","L","E","C",
      "T"," ","c","t",".","d","e","s","c","r","i","p","t","i","o","n"," ","a","s"," ","c","r",
      "i","m","e","_","t","y","p","e",","," ","C","O","U","N","T","(","*",")"," ","a","s"," ",
      "c","o","u","n","t","\n"," "," "," "," "," "," "," "," "," "," "," "," "," "," "," "," ",
      "F","R","O","M"," ","F","I","R"," ","f","\n"," "," "," "," "," "," "," "," "," "," "," ",
      " "," "," "," "," ","J","O","I","N"," ","D","I","S","T","R","I","C","T","_","M","A","S",
      "T","E","R"," ","d"," ","O","N"," ","f",".","d","i","s","t","r","i","c","t","_","i","d",
      " ","="," ","d",".","d","i","s","t","r","i","c","t","_","i","d","\n"," "," "," "," "," ",
      " "," "," "," "," "," "," "," "," "," "," ","J","O","I","N"," ","C","R","I","M","E","_",
      "T","Y","P","E","_","M","A","S","T","E","R"," ","c","t"," ","O","N"," ","f",".","c","r",
      "i","m","e","_","t","y","p","e","_","i","d"," ","="," ","c","t",".","c","r","i","m","e",
      "_","t","y","p","e","_","i","d","\n"," "," "," "," "," "," "," "," "," "," "," "," "," ",
      " "," "," ","W","H","E","R","E"," ","d",".","d","i","s","t","r","i","c","t","_","n","a",
      "m","e"," ","="," ","'">>

\* the rest of the template, from the closing quote:
\* '\'\n    GROUP BY ct.description\n    ORDER BY count DESC\n    '
DistrictSummaryTail ==
    <<"'","\n"," "," "," "," "," "," "," "," "," "," "," "," "," "," "," "," ","G","R","O","U",
      "P"," ","B","Y"," ","c","t",".","d","e","s","c","r","i","p","t","i","o","n","\n"," "," ",
      " "," "," "," "," "," "," "," "," "," "," "," "," "," ","O","R","D","E","R"," ","B","Y",
      " ","c","o","u","n","t"," ","D","E","S","C","\n"," "," "," "," "," "," "," "," "," "," ",
      " "," "," "," "," "," ">>

\* '\n    SELECT o.officer_name, o.rank, COUNT(a.arrest_id) as arrests\n
\* FROM OFFICER_MASTER o\n    LEFT JOIN ARREST a ON o.officer_id = a.officer_id\n
\* WHERE a.arrest_date >= TRUNC(SYSDATE, \'MM\')\n    GROUP BY o.officer_name, o.rank\n
\* ORDER BY arrests DESC\n    ' (every line indented by 12 spaces)
OfficerPerformanceSql ==
    <<"\n"," "," "," "," "," "," "," "," "," "," "," "," ","S","E","L","E","C","T"," ","o",".",
      "o","f","f","i","c","e","r","_","n","a","m","e",","," ","o",".","r","a","n","k",","," ",
      "C","O","U","N","T","(","a",".","a","r","r","e","s","t","_","i","d",")"," ","a","s"," ",
      "a","r","r","e","s","t","s","\n"," "," "," "," "," "," "," "," "," "," "," "," ","F","R",
      "O","M"," ","O","F","F","I","C","E","R","_","M","A","S","T","E","R"," ","o","\n"," "," ",
      " "," "," "," "," "," "," "," "," "," ","L","E","F","T"," ","J","O","I","N"," ","A","R",
      "R","E","S","T"," ","a"," ","O","N"," ","o",".","o","f","f","i","c","e","r","_","i","d",
      " ","="," ","a",".","o","f","f","i","c","e","r","_","i","d","\n"," "," "," "," "," "," ",
      " "," "," "," "," "," ","W","H","E","R","E"," ","a",".","a","r","r","e","s","t","_","d",
      "a","t","e"," ",">","="," ","T","R","U","N","C","(","S","Y","S","D","A","T","E",","," ",
      "'","M","M","'",")","\n"," "," "," "," "," "," "," "," "," "," "," "," ","G","R","O","U",
      "P"," ","B","Y"," ","o",".","o","f","f","i","c","e","r","_","n","a","m","e",","," ","o",
      ".","r","a","n","k","\n"," "," "," "," "," "," "," "," "," "," "," "," ","O","R","D","E",
      "R"," ","B","Y"," ","a","r","r","e","s","t","s"," ","D","E","S","C","\n"," "," "," "," ",
      " "," "," "," "," "," "," "," ">>

\* 'SELECT COUNT(*) as fir_count FROM FIR WHERE DATE(incident_date) = DATE(SYSDATE)'
FirCountTodaySql ==
    <<"S","E","L","E","C","T"," ","C","O","U","N","T","(","*",")"," ","a","s"," ","f","i","r",
      "_","c","o","u","n","t"," ","F","R","O","M"," ","F","I","R"," ","W","H","E","R","E"," ",
      "D","A","T","E","(","i","n","c","i","d","e","n","t","_","d","a","t","e",")"," ","="," ",
      "D","A","T","E","(","S","Y","S","D","A","T","E",")">>

\* 'SELECT COUNT(*) as fir_count FROM FIR WHERE incident_date >= TRUNC(SYSDATE, \'MM\')'
FirCountMonthSql ==
    <<"S","E","L","E","C","T"," ","C","O","U","N","T","(","*",")"," ","a","s"," ","f","i","r",
      "_","c","o","u","n","t"," ","F","R","O","M"," ","F","I","R"," ","W","H","E","R","E"," ",
      "i","n","c","i","d","e","n","t","_","d","a","t","e"," ",">","="," ","T","R","U","N","C",
      "(","S","Y","S","D","A","T","E",","," ","'","M","M","'",")">>

\* _rule_based_generation(query): the statement of the first pattern that the
\* query matches, or None
RuleBasedGeneration(query) ==
    LET query_lower == Lower(query)
        district == ExtractDistrict(query_lower)
    IN  IF /\ Contains(N_crimes, query_lower)
           /\ Contains(N_district, query_lower)
           /\ ~district.is_none
        THEN Some(DistrictSummaryHead \o district.value \o DistrictSummaryTail)
        ELSE IF /\ Contains(N_officer, query_lower)
                /\ (Contains(N_arrest, query_lower) \/ Contains(N_performance, query_lower))
        THEN Some(OfficerPerformanceSql)
        ELSE IF /\ Contains(N_fir, query_lower)
                /\ Contains(N_count, query_lower)
                /\ Contains(N_today, query_lower)
        THEN Some(FirCountTodaySql)
        ELSE IF /\ Contains(N_fir, query_lower)
                /\ Contains(N_count, query_lower)
                /\ Contains(N_month, query_lower)
        THEN Some(FirCountMonthSql)
        ELSE None

\* NL2SQLProcessor._validate_sql(sql): sqlparse.parse(sql) is not empty
ValidateSql(sql) == Len(SqlParse(sql)) > 0

\* generate_sql taking the statement as a match whatever _rule_based_generation
\* returned
GenerateSqlUnguarded(query) ==
    LET sql == RuleBasedGeneration(query)
    IN  [sql |-> sql.value, confidence |-> Frac(9, 10), method |-> "rule_based",
         valid |-> ValidateSql(sql.value)]

\* generate_sql(query): the dict returned; the dict of a query that matches no
\* pattern has no key "valid". (Its except clause is not reached for a query
\* that is a str: _rule_based_generation raises nothing and _validate_sql
\* catches what sqlparse raises.)
GenerateSql(query) ==
    LET sql == RuleBasedGeneration(query)
    IN  IF ~sql.is_none /\ sql.value # <<>>
        THEN [sql |-> sql.value, confidence |-> Frac(9, 10), method |-> "rule_based",
              valid |-> ValidateSql(sql.value)]
        ELSE [sql |-> <<>>, confidence |-> Frac(0, 1), error |-> "No matching pattern"]

\* dict.get(key) is truthy, for a key that holds a bool when it is there
GetTruthy(dict, key) == key \in DOMAIN dict /\ dict[key]

\* The texts callers give to process_query
\* ''
Q_Empty == <<>>

\* 'Show crimes in Guntur district'
Q_CrimesGuntur ==
    <<"S","h","o","w"," ","c","r","i","m","e","s"," ","i","n"," ","G","u","n","t","u","r"," ",
      "d","i","s","t","r","i","c","t">>

\* 'crimes by type, KURNOOL district'
Q_CrimesKurnool ==
    <<"c","r","i","m","e","s"," ","b","y"," ","t","y","p","e",","," ","K","U","R","N","O","O",
      "L"," ","d","i","s","t","r","i","c","t">>

\* 'crimes per district'
Q_CrimesNoDistrict ==
    <<"c","r","i","m","e","s"," ","p","e","r"," ","d","i","s","t","r","i","c","t">>

\* 'officer performance'
Q_Officer ==
    <<"o","f","f","i","c","e","r"," ","p","e","r","f","o","r","m","a","n","c","e">>

\* 'count FIR today'
Q_FirToday ==
    <<"c","o","u","n","t"," ","F","I","R"," ","t","o","d","a","y">>

\* 'count fir this month'
Q_FirMonth ==
    <<"c","o","u","n","t"," ","f","i","r"," ","t","h","i","s"," ","m","o","n","t","h">>

\* 'count fir'
Q_FirCount ==
    <<"c","o","u","n","t"," ","f","i","r">>

\* 'hello'
Q_Hello ==
    <<"h","e","l","l","o">>

\* 'crimes by district and officer arrests'
Q_CrimesOfficer ==
    <<"c","r","i","m","e","s"," ","b","y"," ","d","i","s","t","r","i","c","t"," ","a","n","d",
      " ","o","f","f","i","c","e","r"," ","a","r","r","e","s","t","s">>

\* 'count fir crimes per district today'
Q_CrimesFirToday ==
    <<"c","o","u","n","t"," ","f","i","r"," ","c","r","i","m","e","s"," ","p","e","r"," ","d",
      "i","s","t","r","i","c","t"," ","t","o","d","a","y">>

\* 'Show top crimes in Guntur district'
Q_TopCrimes ==
    <<"S","h","o","w"," ","t","o","p"," ","c","r","i","m","e","s"," ","i","n"," ","G","u","n",
      "t","u","r"," ","d","i","s","t","r","i","c","t">>

\* 'compare officer performance trend'
Q_CompareOfficers ==
    <<"c","o","m","p","a","r","e"," ","o","f","f","i","c","e","r"," ","p","e","r","f","o","r",
      "m","a","n","c","e"," ","t","r","e","n","d">>

\* "Show crimes in Guntur district'; DROP TABLE USERS; --"
Q_CrimesGunturInjected ==
    <<"S","h","o","w"," ","c","r","i","m","e","s"," ","i","n"," ","G","u","n","t","u","r"," ",
      "d","i","s","t","r","i","c","t","'",";"," ","D","R","O","P"," ","T","A","B","L","E"," ",
      "U","S","E","R","S",";"," ","-","-">>

Texts == {Q_Empty, Q_CrimesGuntur, Q_CrimesKurnool, Q_CrimesNoDistrict, Q_Officer, Q_FirToday,
          Q_FirMonth, Q_FirCount, Q_Hello, Q_CrimesOfficer, Q_CrimesFirToday, Q_TopCrimes,
          Q_CompareOfficers, Q_CrimesGunturInjected}

\* generate_sql is a pure function of the text: computed once for every text
GenerateSqlOf == [t \in Texts |-> GenerateSql(t)] @@ <<>>

\* the statements the translator hands to execute_sql
TranslatedStatements == {GenerateSqlOf[t].sql : t \in Texts} \ {<<>>}

(***************************************************************************)
(* The statements callers give: a beginning, and either an ending or a     *)
(* clause repeated up to MaxRepeat times                                   *)
(***************************************************************************)
\* 'SELECT * FROM FIR'
H_Select ==
    <<"S","E","L","E","C","T"," ","*"," ","F","R","O","M"," ","F","I","R">>

\* 'select * from fir'
H_SelectLower ==
    <<"s","e","l","e","c","t"," ","*"," ","f","r","o","m"," ","f","i","r">>

\* 'SELECT * FROM USERS'
H_SelectUsers ==
    <<"S","E","L","E","C","T"," ","*"," ","F","R","O","M"," ","U","S","E","R","S">>

\* '\n  SELECT * FROM FIR'
H_SelectIndented ==
    <<"\n"," "," ","S","E","L","E","C","T"," ","*"," ","F","R","O","M"," ","F","I","R">>

\* 'DROP TABLE FIR'
H_Drop ==
    <<"D","R","O","P"," ","T","A","B","L","E"," ","F","I","R">>

\* 'drop table FIR'
H_DropLower ==
    <<"d","r","o","p"," ","t","a","b","l","e"," ","F","I","R">>

\* ''
H_Empty == <<>>

\* ''
T_None == <<>>

\* '; DROP TABLE FIR'
T_SpaceDrop ==
    <<";"," ","D","R","O","P"," ","T","A","B","L","E"," ","F","I","R">>

\* '; DROP TABLE FIR; --'
T_InjectedDrop ==
    <<";"," ","D","R","O","P"," ","T","A","B","L","E"," ","F","I","R",";"," ","-","-">>

\* ';DROP TABLE FIR'
T_SemiDrop ==
    <<";","D","R","O","P"," ","T","A","B","L","E"," ","F","I","R">>

\* '\nDROP TABLE FIR'
T_NewlineDrop ==
    <<"\n","D","R","O","P"," ","T","A","B","L","E"," ","F","I","R">>

\* ' WHERE id = (DELETE FROM ARREST)'
T_ParenDelete ==
    <<" ","W","H","E","R","E"," ","i","d"," ","="," ","(","D","E","L","E","T","E"," ","F","R",
      "O","M"," ","A","R","R","E","S","T",")">>

\* '; TRUNCATE TABLE FIR'
T_SpaceTruncate ==
    <<";"," ","T","R","U","N","C","A","T","E"," ","T","A","B","L","E"," ","F","I","R">>

\* ' -- x'
T_LineComment ==
    <<" ","-","-"," ","x">>

\* ' /* x */'
T_BlockComment ==
    <<" ","/","*"," ","x"," ","*","/">>

\* ' /* x\n*/'
T_BlockCommentNextLine ==
    <<" ","/","*"," ","x","\n","*","/">>

\* ' /* x'
T_BlockCommentOpen ==
    <<" ","/","*"," ","x">>

\* '; SELECT 2 FROM FIR'
T_SecondSelect ==
    <<";"," ","S","E","L","E","C","T"," ","2"," ","F","R","O","M"," ","F","I","R">>

\* ' JOIN SECRETS s ON 1=1'
T_JoinSecrets ==
    <<" ","J","O","I","N"," ","S","E","C","R","E","T","S"," ","s"," ","O","N"," ","1","=","1">>

\* " WHERE n = 'a' OR 'x'='x'"
T_Tautology ==
    <<" ","W","H","E","R","E"," ","n"," ","="," ","'","a","'"," ","O","R"," ","'","x","'","=",
      "'","x","'">>

\* ' ORDER BY id'
T_OrderBy ==
    <<" ","O","R","D","E","R"," ","B","Y"," ","i","d">>

\* " WHERE UPPER(n) = 'A'"
T_UpperFn ==
    <<" ","W","H","E","R","E"," ","U","P","P","E","R","(","n",")"," ","="," ","'","A","'">>

\* ', (SELECT 1 FROM ARREST) a'
T_SecondFrom ==
    <<","," ","(","S","E","L","E","C","T"," ","1"," ","F","R","O","M"," ","A","R","R","E","S",
      "T",")"," ","a">>

\* ' JOIN ARREST'
U_Join ==
    <<" ","J","O","I","N"," ","A","R","R","E","S","T">>

\* ' join ARREST'
U_JoinLower ==
    <<" ","j","o","i","n"," ","A","R","R","E","S","T">>

\* ', (SELECT 1)'
U_Select ==
    <<","," ","(","S","E","L","E","C","T"," ","1",")">>

Heads == {H_Select, H_SelectLower, H_SelectUsers, H_SelectIndented,
          H_Drop, H_DropLower, H_Empty}

Tails == {T_None, T_SpaceDrop, T_SemiDrop, T_NewlineDrop, T_ParenDelete,
          T_SpaceTruncate, T_LineComment, T_BlockComment, T_BlockCommentNextLine,
          T_BlockCommentOpen, T_SecondSelect, T_JoinSecrets, T_Tautology,
          T_OrderBy, T_UpperFn, T_SecondFrom, T_InjectedDrop}

RepeatedHeads == {H_Select, H_SelectUsers}

Units == {U_Join, U_JoinLower, U_Select}

\* the most repetitions of a clause in one statement
MaxRepeat == 11

RECURSIVE Repeat(_, _)
Repeat(unit, k) == IF k = 0 THEN <<>> ELSE unit \o Repeat(unit, k - 1)

Statements ==
    {h \o t : h \in Heads, t \in Tails}
    \cup {h \o Repeat(u, k) : h \in RepeatedHeads, u \in Units, k \in 0..MaxRepeat}
    \cup TranslatedStatements

\* The validators are pure functions of the statement: each is computed once
\* for every statement and looked up where the program calls it. (f @@ <<>> is
\* f, as a table of its values.)
ValidateSqlSecurityOf == [s \in Statements |-> ValidateSqlSecurity(s)] @@ <<>>

ParseAndValidateSqlOf == [s \in Statements |-> ParseAndValidateSql(s)] @@ <<>>

ValidateQueryOf == [s \in Statements |-> ValidateQuery(s)] @@ <<>>

(***************************************************************************)
(* The parser and the database, as one call meets them                     *)
(***************************************************************************)
\* the most rows a statement yields
MaxRows == 1

\* the longest execution time measured, in clock ticks
MaxDuration == 1

\* the most execute_sql calls made on one SQLExecutor
MaxCalls == 2

Rows(n) == [i \in 1..n |-> i]

\* str(e) of the exceptions: one with no message, and the time-out 'ORA-01013'
DriverDetails ==
    { <<>>, <<"O","R","A","-","0","1","0","1","3">> }

\* what the world outside does in one call: the database yields rows, or
\* an exception is raised by sqlparse.parse ("parse"), by engine.connect()
\* ("connect"), by the ALTER SESSION ("session") or by the statement itself
\* ("query": a time-out, a driver error)
Behaviours ==
    {[kind |-> "ok", at |-> "", detail |-> <<>>, rows |-> Rows(n), columns |-> <<"status">>] :
        n \in 0..MaxRows}
    \cup {[kind |-> "raise", at |-> a, detail |-> d, rows |-> <<>>, columns |-> <<>>] :
            a \in {"parse", "connect", "session", "query"}, d \in DriverDetails}

\* what the world outside does in a call that asks nothing of the database
ParserBehaviours == {w \in Behaviours : w.rows = <<>> /\ w.at \in {"", "parse"}}

\* sqlparse.parse raises in this call
ParserRaises(world) == world.kind = "raise" /\ world.at = "parse"

\* the except clause of _parse_and_validate_sql
ParsingError(detail) == NoQueryInfo(Msg("SQL parsing error: {str(e)}", detail))

\* _parse_and_validate_sql(sql), with its except clause
TryParseAndValidateSql(sql, world) ==
    IF ParserRaises(world) THEN ParsingError(world.detail) ELSE ParseAndValidateSqlOf[sql]

\* _validate_query(sql), with the except clause of its syntax validation
TryValidateQuery(sql, world) ==
    IF ParserRaises(world) THEN [ValidateQueryOf[sql] EXCEPT !.syntax_valid = FALSE]
    ELSE ValidateQueryOf[sql]

\* generate_sql(query), with the except clause of _validate_sql
TryGenerateSql(query, world) ==
    IF ParserRaises(world) /\ "valid" \in DOMAIN GenerateSqlOf[query]
    THEN [GenerateSqlOf[query] EXCEPT !.valid = FALSE]
    ELSE GenerateSqlOf[query]

Durations == 0..MaxDuration

(***************************************************************************)
(* SQLExecutor.execute_sql                                                 *)
(***************************************************************************)
\* what a call leaves: the statistics, what the connection was given to execute,
\* and the dict returned (raised: an exception left execute_sql instead)
Outcome(stats, statements, raised, value) ==
    [stats |-> stats, sent |-> statements, raised |-> raised, value |-> value]

\* the except clause of execute_sql, letting the exception go on
HandleExceptionReraise(stats, statements, error, execution_time) ==
    Outcome(UpdateExecutionStats(stats, execution_time, FALSE), statements, TRUE,
            ErrorResponse(error))

\* the except clause of execute_sql, for the exception with message str(e)
HandleException(stats, statements, error, execution_time) ==
    Outcome(UpdateExecutionStats(stats, execution_time, FALSE), statements, FALSE,
            ErrorResponse(error))

\* a rejection by a check of execute_sql, counted as a failed query
RejectedCounted(counted, prefix, reason) ==
    Outcome(UpdateExecutionStats(counted, 0, FALSE), <<>>, FALSE,
            ErrorResponse(Prefixed(prefix, reason)))

\* execute_sql returns the error response of a check that rejected the
\* statement: nothing is sent, and the statistics stay as counted so far
Rejected(counted, prefix, reason) ==
    Outcome(counted, <<>>, FALSE, ErrorResponse(Prefixed(prefix, reason)))

\* execute_sql without its security check
ExecuteSqlBodyUnchecked(eng, stats, sql, world, execution_time) ==
    LET Counted(counted, parsing_result, result) ==
            IF ~parsing_result.valid
            THEN Rejected(counted, "SQL validation failed: ", parsing_result.reason)
            ELSE IF result.raised
            THEN HandleException(counted, result.sent, result.error, execution_time)
            ELSE Outcome(UpdateExecutionStats(counted, execution_time, TRUE),
                         result.sent, FALSE,
                         [success |-> TRUE,
                          results |-> result.data,
                          columns |-> result.columns,
                          row_count |-> Len(result.data),
                          execution_time |-> execution_time,
                          sql_executed |-> sql,
                          query_type |-> parsing_result.query_type,
                          tables_accessed |-> parsing_result.tables])
    IN  IF ~eng
        THEN Outcome(stats, <<>>, FALSE,
                     ErrorResponse(Msg("No database connection available", <<>>)))
        ELSE Counted([stats EXCEPT !.total_queries = @ + 1],
                     TryParseAndValidateSql(sql, world), ExecuteWithTimeout(sql, world))

ExecuteSqlBody(eng, stats, sql, world, execution_time) ==
    LET Counted(counted, security_check, parsing_result, result) ==
            IF ~security_check.valid
            THEN Rejected(counted, "Security validation failed: ", security_check.reason)
            ELSE IF ~parsing_result.valid
            THEN Rejected(counted, "SQL validation failed: ", parsing_result.reason)
            ELSE IF result.raised
            THEN HandleException(counted, result.sent, result.error, execution_time)
            ELSE Outcome(UpdateExecutionStats(counted, execution_time, TRUE),
                         result.sent, FALSE,
                         [success |-> TRUE,
                          results |-> result.data,
                          columns |-> result.columns,
                          row_count |-> Len(result.data),
                          execution_time |-> execution_time,
                          sql_executed |-> sql,
                          query_type |-> parsing_result.query_type,
                          tables_accessed |-> parsing_result.tables])
    IN  IF ~eng
        THEN Outcome(stats, <<>>, FALSE,
                     ErrorResponse(Msg("No database connection available", <<>>)))
        ELSE Counted([stats EXCEPT !.total_queries = @ + 1],
                     ValidateSqlSecurityOf[sql], TryParseAndValidateSql(sql, world),
                     ExecuteWithTimeout(sql, world))

(***************************************************************************)
(* api/main.py: process_query                                              *)
(***************************************************************************)
\* the rows of the result that the response carries
ResponseRowLimit == 50

\* report_generator.generate_report, as process_query meets it: it raises, or
\* returns a report with or without a chart
ReportBehaviours ==
    {[raised |-> r, chart_path |-> c] : r \in BOOLEAN, c \in BOOLEAN}
        \ {[raised |-> TRUE, chart_path |-> TRUE]}

\* the except clause of process_query: whatever was raised leaves as
\* HTTPException(status_code=500)
InternalServerError == [status_code |-> 500]

\* process_query reaches its call of execute_sql
ReachesExecuteSql(text, world) ==
    text # <<>> /\ GetTruthy(TryGenerateSql(text, world), "valid")

ProcessQueryBody(eng, stats, text, world, execution_time, report) ==
    LET Executed(sql_result, out, db_result) ==
            IF ~db_result.success
            THEN Outcome(out.stats, out.sent, FALSE,
                         [error |-> "SQL execution failed", details |-> db_result])
            ELSE IF report.raised
            THEN Outcome(out.stats, out.sent, TRUE, InternalServerError)
            ELSE Outcome(out.stats, out.sent, FALSE,
                         [query |-> text,
                          sql |-> sql_result.sql,
                          results |-> FetchMany(db_result.results, ResponseRowLimit),
                          total_rows |-> db_result.row_count,
                          chart_available |-> report.chart_path])
        Execute(sql_result, out) == Executed(sql_result, out, out.value)
        Generated(sql_result) ==
            IF ~GetTruthy(sql_result, "valid")
            THEN Outcome(stats, <<>>, FALSE,
                         [error |-> "Could not generate valid SQL", details |-> sql_result])
            ELSE Execute(sql_result,
                         ExecuteSqlBody(eng, stats, sql_result.sql, world, execution_time))
    IN  IF text = <<>>
        THEN Outcome(stats, <<>>, TRUE, InternalServerError)
        ELSE Generated(TryGenerateSql(text, world))

(***************************************************************************)
(* The connection pool of the engine                                       *)
(***************************************************************************)
\* execute_sql reaches engine.connect() in this call and is given a connection
Connected(eng, sql, world) ==
    /\ eng
    /\ ValidateSqlSecurityOf[sql].valid
    /\ TryParseAndValidateSql(sql, world).valid
    /\ ~(world.kind = "raise" /\ world.at = "connect")

\* the connection closed only where the block ends, as without the with
\* statement
ClosedAtEndOfBlock(eng, sql, world) ==
    Connected(eng, sql, world) /\ world.kind # "raise"

\* `with self.engine.connect() as conn`: the connection goes back to the pool
\* however the block is left, by its return or by an exception
Closed(eng, sql, world) == Connected(eng, sql, world)

\* the connections checked out of the pool after the call, of n before it
CheckedOutAfter(n, eng, sql, world) ==
    n + (IF Connected(eng, sql, world) THEN 1 ELSE 0)
      - (IF Closed(eng, sql, world) THEN 1 ELSE 0)

(***************************************************************************)
(* State                                                                   *)
(***************************************************************************)
VARIABLES
    engine,           \* SQLExecutor.engine is set (the connection was established)
    execution_stats,  \* SQLExecutor.execution_stats
    pc,               \* "idle", "called" (a call was made), "done" (it returned)
    op,               \* the operation called
    arg,              \* its argument
    env,              \* the database's behaviour and the time measured in this call
    sent,             \* what the connection was given to execute in this call
    ret,              \* what the call returned or raised
    calls,            \* execute_sql calls made so far
    recorded,         \* the durations _update_execution_stats was given so far
    previous,         \* the call of the translator or the agent before: its
                      \* operation, its argument and its result
    validated,        \* the statements given to _validate_query in this call
    tasks,            \* the execute_sql coroutines that the event loop holds
    checked_out       \* the connections checked out of the engine's pool

vars == <<engine, execution_stats, pc, op, arg, env, sent, ret, calls, recorded,
          previous, validated, tasks, checked_out>>

\* the pool of the engine
pool == <<checked_out>>

\* what the executor's sequential callers leave alone
elsewhere == <<previous, validated, tasks>>

\* the executor's state, which the translator and the agent leave alone
executor == <<engine, execution_stats, sent, calls, recorded, tasks, checked_out>>

NoEnv == [world |-> [kind |-> "", at |-> "", detail |-> <<>>, rows |-> <<>>, columns |-> <<>>],
          execution_time |-> 0]

NoRet == [raised |-> FALSE, value |-> <<>>]

NoPrevious == [op |-> "none", arg |-> <<>>, value |-> <<>>]

\* SQLExecutor.__init__: the engine is there unless the connection string is
\* missing or _initialize_connection failed
Init ==
    /\ engine \in BOOLEAN
    /\ execution_stats = InitialStats
    /\ pc = "idle"
    /\ op = "none"
    /\ arg = <<>>
    /\ env = NoEnv
    /\ sent = <<>>
    /\ ret = NoRet
    /\ calls = 0
    /\ recorded = <<>>
    /\ previous = NoPrevious
    /\ validated = <<>>
    /\ tasks = <<>>
    /\ checked_out = 0

\* _update_execution_stats ran between the two values of the statistics: it
\* is the only place that counts a query as successful or failed
StatsUpdated(before, after) ==
    after.successful_queries + after.failed_queries
        > before.successful_queries + before.failed_queries

\* the durations recorded, after a call that measured execution_time
Recorded(durations, before, after, execution_time) ==
    IF StatsUpdated(before, after) THEN Append(durations, execution_time) ELSE durations

\* a caller calls sql_executor.execute_sql(sql)
CallExecuteSql(sql) ==
    /\ pc = "idle"
    /\ calls < MaxCalls
    /\ pc' = "called"
    /\ op' = "execute_sql"
    /\ arg' = sql
    /\ calls' = calls + 1
    /\ UNCHANGED <<engine, execution_stats, env, sent, ret, recorded>>
    /\ UNCHANGED elsewhere
    /\ UNCHANGED pool

\* the body of execute_sql, against a database that behaves as world says
ExecuteSql(world, execution_time) ==
    /\ pc = "called"
    /\ op = "execute_sql"
    /\ LET out == ExecuteSqlBody(engine, execution_stats, arg, world, execution_time)
       IN  /\ execution_stats' = out.stats
           /\ sent' = out.sent
           /\ ret' = [raised |-> out.raised, value |-> out.value]
           /\ recorded' = Recorded(recorded, execution_stats, out.stats, execution_time)
    /\ checked_out' = CheckedOutAfter(checked_out, engine, arg, world)
    /\ env' = [world |-> world, execution_time |-> execution_time]
    /\ pc' = "done"
    /\ UNCHANGED <<engine, op, arg, calls>>
    /\ UNCHANGED elsewhere

\* a client posts {"text": text} to /api/query/process
CallProcessQuery(text) ==
    /\ pc = "idle"
    /\ calls < MaxCalls
    /\ pc' = "called"
    /\ op' = "process_query"
    /\ arg' = text
    /\ UNCHANGED <<engine, execution_stats, env, sent, ret, calls, recorded>>
    /\ UNCHANGED elsewhere
    /\ UNCHANGED pool

\* the body of process_query: the translator, execute_sql and the report
\* generator, against a database that behaves as world says
ProcessQuery(world, execution_time, report) ==
    /\ pc = "called"
    /\ op = "process_query"
    /\ LET out == ProcessQueryBody(engine, execution_stats, arg, world, execution_time, report)
       IN  /\ execution_stats' = out.stats
           /\ sent' = out.sent
           /\ ret' = [raised |-> out.raised, value |-> out.value]
           /\ recorded' = Recorded(recorded, execution_stats, out.stats, execution_time)
    /\ calls' = IF ReachesExecuteSql(arg, world) THEN calls + 1 ELSE calls
    /\ IF ReachesExecuteSql(arg, world)
       THEN checked_out' = CheckedOutAfter(checked_out, engine, GenerateSqlOf[arg].sql, world)
       ELSE UNCHANGED pool
    /\ env' = [world |-> world, execution_time |-> execution_time]
    /\ pc' = "done"
    /\ UNCHANGED <<engine, op, arg>>
    /\ UNCHANGED elsewhere

\* a caller calls query_agent._validate_query(sql)
CallValidateQuery(sql) ==
    /\ pc = "idle"
    /\ pc' = "called"
    /\ op' = "validate_query"
    /\ arg' = sql
    /\ UNCHANGED <<engine, execution_stats, env, sent, ret, calls, recorded>>
    /\ UNCHANGED elsewhere
    /\ UNCHANGED pool

\* the body of _validate_query
DoValidateQuery(world) ==
    /\ pc = "called"
    /\ op = "validate_query"
    /\ ret' = [raised |-> FALSE, value |-> TryValidateQuery(arg, world)]
    /\ env' = [world |-> world, execution_time |-> 0]
    /\ pc' = "done"
    /\ UNCHANGED <<engine, execution_stats, op, arg, sent, calls, recorded>>
    /\ UNCHANGED elsewhere
    /\ UNCHANGED pool

\* the caller takes the result
Return ==
    /\ pc = "done"
    /\ pc' = "idle"
    /\ op' = "none"
    /\ arg' = <<>>
    /\ env' = NoEnv
    /\ sent' = <<>>
    /\ ret' = NoRet
    /\ UNCHANGED <<engine, execution_stats, calls, recorded>>
    /\ UNCHANGED elsewhere
    /\ UNCHANGED pool

Next ==
    \/ \E sql \in Statements : CallExecuteSql(sql)
    \/ \E world \in Behaviours, execution_time \in Durations : ExecuteSql(world, execution_time)
    \/ \E text \in Texts : CallProcessQuery(text)
    \/ \E world \in Behaviours, execution_time \in Durations, report \in ReportBehaviours :
            ProcessQuery(world, execution_time, report)
    \/ \E sql \in Statements : CallValidateQuery(sql)
    \/ \E world \in ParserBehaviours : DoValidateQuery(world)
    \/ Return

Spec == Init /\ [][Next]_vars

(***************************************************************************)
(* What the specification reads in a statement                             *)
(***************************************************************************)
\* the characters that delimit a token
Delimiters == {" ", "\n", ";", "(", ")"}

\* the keyword stands at position j of the statement as a token of its own,
\* in any letter case
StandaloneAt(statement, keyword, j) ==
    /\ Occurs(Upper(statement), keyword, j)
    /\ (j = 1 \/ statement[j - 1] \in Delimiters)
    /\ (j + Len(keyword) - 1 = Len(statement) \/ statement[j + Len(keyword)] \in Delimiters)

\* the denylisted keywords that stand in the statement as tokens of their own
StandaloneKeywords(statement) ==
    {dangerous_keywords[k] : k \in {h \in 1..Len(dangerous_keywords) :
        \E j \in 1..Len(statement) : StandaloneAt(statement, dangerous_keywords[h], j)}}

\* the tokens that are words with this spelling, in any letter case
WordTokens(tokens, word) == {k \in 1..Len(tokens) : Upper(tokens[k].value) = word}

\* the identifiers that follow FROM or JOIN, given the tokens without white space
TablesAfterFromOrJoin(words) ==
    {words[k + 1].value : k \in {h \in 1..(Len(words) - 1) :
        /\ Upper(words[h].value) \in {W_FROM, W_JOIN}
        /\ words[h + 1].ttype = "Name"}}

ReferencedTables(tokens) ==
    TablesAfterFromOrJoin(
        SelectAt(tokens, {k \in 1..Len(tokens) : ~IsWhitespaceToken(tokens[k])}))

\* a comment token: '--', or '/*' whether or not it is closed
HasCommentToken(statement) ==
    Contains(<<"-","-">>, statement) \/ Contains(<<"/","*">>, statement)

ReadingOfTokens(statement, tokens) ==
    [keywords |-> StandaloneKeywords(statement),
     off_list |-> {t \in ReferencedTables(tokens) : Upper(t) \notin allowed_tables},
     joins |-> Cardinality(WordTokens(tokens, W_JOIN)),
     selects |-> Cardinality(WordTokens(tokens, W_SELECT)),
     statements |-> Len(SplitStatements(tokens)),
     comment |-> HasCommentToken(statement)]

\* what the specification reads in each statement: its standalone denylisted
\* keywords, the tables off the allow-list it references, its JOIN and SELECT
\* keywords, the statements it is made of, and whether it holds a comment token
ReadingOf == [s \in Statements |-> ReadingOfTokens(s, Lex(s))] @@ <<>>

\* SELECTs other than the outermost one
NestedSelects(statement) ==
    IF ReadingOf[statement].selects = 0 THEN 0 ELSE ReadingOf[statement].selects - 1

(***************************************************************************)
(* What a call did, read in the state after it                             *)
(***************************************************************************)
\* the operation has returned (or raised) and the caller has not yet taken
\* the result
Returned(operation) == pc = "done" /\ op = operation

\* execute_sql ran in this call: called directly, or reached by process_query
ExecuteSqlRan ==
    \/ Returned("execute_sql")
    \/ Returned("process_query") /\ ReachesExecuteSql(arg, env.world)

\* the statement execute_sql was given in this call
StatementOfCall == IF op = "execute_sql" THEN arg ELSE GenerateSqlOf[arg].sql

\* the connection was given the statement to execute
WasSent(statement) == \E i \in 1..Len(sent) : sent[i] = statement

\* the statement is the one of this call and passed both checks of execute_sql
PassedValidation(statement) ==
    /\ statement = StatementOfCall
    /\ ValidateSqlSecurityOf[statement].valid
    /\ TryParseAndValidateSql(statement, env.world).valid

\* the call produced a result with success=true: execute_sql returned it, or
\* process_query went on to the report generator
Succeeded ==
    \/ Returned("execute_sql") /\ ret.value.success
    \/ /\ Returned("process_query")
       /\ ReachesExecuteSql(arg, env.world)
       /\ (ret.raised \/ "results" \in DOMAIN ret.value)

\* execute_sql returned a failure whose message starts with the prefix
FailedWith(prefix) ==
    /\ Returned("execute_sql")
    /\ ~ret.value.success
    /\ ret.value.error.prefix = prefix

\* the security check rejected the statement with this reason
SecurityRejected(reason) ==
    FailedWith("Security validation failed: ") /\ ret.value.error.text = reason

\* the reasons of the stages that come before the complexity stage
EarlierStageReasons ==
    {"Dangerous keyword '{keyword}' not allowed", "Only SELECT statements are allowed",
     "Potential SQL injection detected: {pattern}"}

RejectedBeforeComplexity == \E reason \in EarlierStageReasons : SecurityRejected(reason)

\* the message is the empty string once its placeholder is filled in
IsEmptyMessage(message) ==
    /\ message.prefix = ""
    /\ \/ message.text = ""
       \/ message.text \in {"{str(e)}", "{keyword}", "{pattern}", "{table}"}
          /\ message.arg = <<>>

\* the verdict a caller reads in the report of _validate_query, which has no
\* key "allowed": the report shows no blocking failure
ReportAllows(report) == report.syntax_valid /\ report.security_valid

\* the five blocking stages of the specification pass the statement
FiveStagesPass(statement) ==
    /\ ReadingOf[statement].statements = 1
    /\ ReadingOf[statement].keywords = {}
    /\ StartsWith(Strip(Upper(statement)), W_SELECT)
    /\ ~ReadingOf[statement].comment
    /\ ReadingOf[statement].off_list = {}
    /\ ReadingOf[statement].joins <= MaxJoins
    /\ NestedSelects(statement) <= MaxSelects

(***************************************************************************)
(* C1                                                                      *)
(***************************************************************************)
\* C1, as stated: in every process_query run and every direct call of
\* execute_sql, every statement the connection is given to execute has passed
\* the security check and the parse check in that call.
C1_EverySentStatementValidated ==
    (pc = "done") => \A i \in 1..Len(sent) : PassedValidation(sent[i])

\* C1, amended: the connection is given the caller's statement only after that
\* statement passed both checks in that call, and the only other statement it
\* is given is the executor's own ALTER SESSION SET query_timeout, first and
\* unvalidated; every result with success=true comes from a statement that
\* passed both checks, and a statement that a check rejects is never sent.
C1_CallerStatementSentOnlyValidated ==
    (pc = "done") =>
        /\ \A i \in 1..Len(sent) :
              \/ i = 1 /\ sent[i] = AlterSessionTimeout
              \/ i = 2 /\ PassedValidation(sent[i])
        /\ (~ExecuteSqlRan => sent = <<>>)
        /\ (Succeeded => PassedValidation(StatementOfCall) /\ WasSent(StatementOfCall))
        /\ (ExecuteSqlRan /\ ~PassedValidation(StatementOfCall)
                => ~WasSent(StatementOfCall) /\ ~Succeeded)

\* a process_query run whose translated statement was executed and reported
C1_Witness ==
    /\ Returned("process_query")
    /\ ~ret.raised
    /\ "results" \in DOMAIN ret.value
    /\ sent = <<AlterSessionTimeout, GenerateSqlOf[arg].sql>>

(***************************************************************************)
(* C2                                                                      *)
(***************************************************************************)
\* C2: a statement that holds a denylisted keyword as a token of its own, in
\* any letter case and whatever delimits it, is rejected by the security check
\* of execute_sql with a reason that names such a keyword, and the report of
\* _validate_query says security_valid = false.
C2_StandaloneKeywordRejected ==
    /\ (Returned("execute_sql") /\ engine /\ ReadingOf[arg].keywords # {}
            => /\ SecurityRejected("Dangerous keyword '{keyword}' not allowed")
               /\ ret.value.error.arg \in ReadingOf[arg].keywords)
    /\ (Returned("validate_query") /\ ReadingOf[arg].keywords # {}
            => ~ret.value.security_valid)

(***************************************************************************)
(* C3                                                                      *)
(***************************************************************************)
\* C3: a statement that references, after FROM or JOIN, a table off the
\* allow-list is rejected and not executed, and when it is the parse check that
\* rejects it the reason names such a table.
C3_OffListTableRejected ==
    (Returned("execute_sql") /\ engine /\ ReadingOf[arg].off_list # {}) =>
        /\ ~ret.value.success
        /\ ~WasSent(arg)
        /\ (FailedWith("SQL validation failed: ") /\ ~ParserRaises(env.world)
                => /\ ret.value.error.text = "Access to table '{table}' not allowed"
                   /\ ret.value.error.arg \in ReadingOf[arg].off_list)

(***************************************************************************)
(* C4                                                                      *)
(***************************************************************************)
\* C4: a statement that the earlier stages do not reject is rejected with the
\* reason of the join limit exactly when it holds more than 10 JOIN keywords,
\* however they are capitalised.
C4_RejectedExactlyAboveJoinLimit ==
    (Returned("execute_sql") /\ engine /\ ~RejectedBeforeComplexity) =>
        (SecurityRejected("Too many JOINs (max 10 allowed)")
            <=> ReadingOf[arg].joins > MaxJoins)

(***************************************************************************)
(* C5                                                                      *)
(***************************************************************************)
\* C5: a statement that the earlier stages and the join limit do not reject is
\* rejected for its subqueries exactly when its nested SELECTs, those other
\* than the outermost one, are more than 5.
C5_RejectedExactlyAboveNestedSelectLimit ==
    (/\ Returned("execute_sql") /\ engine
     /\ ~RejectedBeforeComplexity
     /\ ~SecurityRejected("Too many JOINs (max 10 allowed)")) =>
        (SecurityRejected("Too many subqueries (max 5 allowed)")
            <=> NestedSelects(arg) > MaxSelects)

(***************************************************************************)
(* C6                                                                      *)
(***************************************************************************)
\* C6: an input that does not parse as exactly one statement is refused by
\* execute_sql and never executed, is reported syntax-invalid by
\* _validate_query, and is not called valid by the translator.
C6_ExactlyOneStatementAccepted ==
    /\ (Returned("execute_sql") /\ engine /\ ReadingOf[arg].statements # 1
            => ~ret.value.success /\ ~WasSent(arg))
    /\ (Returned("validate_query") /\ ReadingOf[arg].statements # 1
            => ~ret.value.syntax_valid)
    /\ (Returned("process_query") /\ ReachesExecuteSql(arg, env.world)
            => ReadingOf[GenerateSqlOf[arg].sql].statements = 1)

(***************************************************************************)
(* C7                                                                      *)
(***************************************************************************)
\* C7: a statement that holds a comment token, '--' or '/*' (closed on the
\* same line, on a later line or not at all), is rejected by the security
\* check and never executed.
C7_CommentTokenRejected ==
    (Returned("execute_sql") /\ engine /\ ReadingOf[arg].comment) =>
        /\ FailedWith("Security validation failed: ")
        /\ ~WasSent(arg)

(***************************************************************************)
(* C8                                                                      *)
(***************************************************************************)
\* C8: the report of _validate_query allows a statement exactly when the five
\* blocking stages pass it (one statement, no denylisted keyword and a SELECT,
\* no comment token, no table off the allow-list, joins and nested SELECTs
\* within bounds), whatever performance warnings the report carries.
C8_AllowedIsConjunctionOfBlockingStages ==
    (Returned("validate_query") /\ ~ParserRaises(env.world)) =>
        (ReportAllows(ret.value) <=> FiveStagesPass(arg))

(***************************************************************************)
(* C9                                                                      *)
(***************************************************************************)
\* C9: execute_sql never raises; whenever the parser, the connection, the
\* session set-up or the statement raises in a call, and whenever it fails
\* otherwise, it returns success=false with an error message that is not
\* empty, results=[], columns=[] and row_count=0.
C9_ExecuteSqlReturnsErrorResponse ==
    Returned("execute_sql") =>
        /\ ~ret.raised
        /\ (engine /\ env.world.kind = "raise" /\ ValidateSqlSecurityOf[arg].valid
                => ~ret.value.success)
        /\ (~ret.value.success
                => /\ ~IsEmptyMessage(ret.value.error)
                   /\ ret.value.results = <<>>
                   /\ ret.value.columns = <<>>
                   /\ ret.value.row_count = 0)

\* the statement was sent and the driver raised an exception with no message
C9_Witness ==
    /\ Returned("execute_sql")
    /\ env.world.kind = "raise"
    /\ env.world.at = "query"
    /\ env.world.detail = <<>>
    /\ sent = <<AlterSessionTimeout, arg>>
    /\ ~ret.value.success
    /\ ret.value.error.text = "Query execution failed: {str(e)}"

(***************************************************************************)
(* C10                                                                     *)
(***************************************************************************)
\* C10: when no call is under way, every call made so far has been counted
\* once in total_queries and once in either successful_queries or
\* failed_queries: total_queries = successful_queries + failed_queries = the
\* number of calls of execute_sql.
C10_EveryCallCountedOnce ==
    (pc # "called") =>
        /\ execution_stats.total_queries
              = execution_stats.successful_queries + execution_stats.failed_queries
        /\ execution_stats.total_queries = calls

(***************************************************************************)
(* C11                                                                     *)
(***************************************************************************)
RECURSIVE SumOf(_)
SumOf(durations) ==
    IF durations = <<>> THEN 0 ELSE Head(durations) + SumOf(Tail(durations))

\* C11: when no call is under way and N >= 1 durations have been recorded,
\* avg_execution_time is their arithmetic mean: avg_execution_time * N is the
\* sum of the recorded durations, whatever calls validation rejected in between.
C11_AverageIsMeanOfRecorded ==
    (pc # "called" /\ Len(recorded) >= 1) =>
        execution_stats.avg_execution_time.num * Len(recorded)
            = SumOf(recorded) * execution_stats.avg_execution_time.den

(***************************************************************************)
(* C12                                                                     *)
(***************************************************************************)
\* a check of execute_sql rejects the statement of this call, given what the
\* parser does
ValidationRejects(world) ==
    \/ ~ValidateSqlSecurityOf[StatementOfCall].valid
    \/ ~TryParseAndValidateSql(StatementOfCall, world).valid

\* C12: in a call where validation rejects the statement, nothing is sent to
\* the connection, failed_queries keeps the value it had before the call, and
\* the caller receives a result that carries an error.
C12_RejectionLeavesFailedCounter ==
    [][(/\ pc = "called" /\ pc' = "done" /\ engine
        /\ \/ op = "execute_sql"
           \/ op = "process_query" /\ ReachesExecuteSql(arg, env'.world)
        /\ ValidationRejects(env'.world))
            => /\ sent' = <<>>
               /\ execution_stats'.failed_queries = execution_stats.failed_queries
               /\ ~ret'.raised
               /\ IF op = "execute_sql"
                  THEN ~ret'.value.success /\ ~IsEmptyMessage(ret'.value.error)
                  ELSE "error" \in DOMAIN ret'.value /\ ~ret'.value.details.success]_vars

\* the statement with '; DROP TABLE FIR; --' appended was rejected after an
\* earlier call had failed at the database
C12_Witness ==
    /\ Returned("execute_sql")
    /\ engine
    /\ arg = H_Select \o T_InjectedDrop
    /\ SecurityRejected("Dangerous keyword '{keyword}' not allowed")
    /\ sent = <<>>
    /\ execution_stats.failed_queries = 1
    /\ execution_stats.total_queries = 2

(***************************************************************************)
(* The translator and the query agent, as their callers meet them          *)
(***************************************************************************)
\* a caller awaits nl2sql_processor.generate_sql(text)
CallGenerateSql(text) ==
    /\ pc = "idle"
    /\ pc' = "called"
    /\ op' = "generate_sql"
    /\ arg' = text
    /\ UNCHANGED <<env, ret, previous, validated>>
    /\ UNCHANGED executor

\* the body of generate_sql
DoGenerateSql(world) ==
    /\ pc = "called"
    /\ op = "generate_sql"
    /\ ret' = [raised |-> FALSE, value |-> TryGenerateSql(arg, world)]
    /\ env' = [world |-> world, execution_time |-> 0]
    /\ pc' = "done"
    /\ UNCHANGED <<op, arg, previous, validated>>
    /\ UNCHANGED executor

\* the caller takes the result; the call is remembered until the next one
\* returns
AgentReturn ==
    /\ pc = "done"
    /\ pc' = "idle"
    /\ op' = "none"
    /\ arg' = <<>>
    /\ env' = NoEnv
    /\ ret' = NoRet
    /\ validated' = <<>>
    /\ previous' = [op |-> op, arg |-> arg, value |-> ret.value]
    /\ UNCHANGED executor

(***************************************************************************)
(* C14                                                                     *)
(***************************************************************************)
\* the required keywords of the pattern are all contained in the lower-cased
\* text
KeywordsMatch(pattern, query_lower) ==
    CASE pattern = 1 -> Contains(N_crimes, query_lower) /\ Contains(N_district, query_lower)
      [] pattern = 2 -> /\ Contains(N_officer, query_lower)
                        /\ (Contains(N_arrest, query_lower)
                                \/ Contains(N_performance, query_lower))
      [] pattern = 3 -> Contains(N_fir, query_lower) /\ Contains(N_count, query_lower)

\* the first pattern, in the priority order, whose keywords match; 0 if none
FirstMatchingPattern(query_lower) ==
    IF \E k \in 1..3 : KeywordsMatch(k, query_lower)
    THEN CHOOSE k \in 1..3 : /\ KeywordsMatch(k, query_lower)
                             /\ \A h \in 1..(k - 1) : ~KeywordsMatch(h, query_lower)
    ELSE 0

\* the statements a pattern yields
StatementsOfPattern(pattern) ==
    CASE pattern = 1 -> {DistrictSummaryHead \o Title(districts[i]) \o DistrictSummaryTail :
                            i \in 1..Len(districts)}
      [] pattern = 2 -> {OfficerPerformanceSql}
      [] pattern = 3 -> {FirCountTodaySql, FirCountMonthSql}
      [] OTHER -> {}

\* C14: the statement generate_sql returns is one of the first pattern whose
\* keywords the lower-cased text contains, never one of a later pattern; a
\* text that matches no pattern gets no statement.
C14_FirstMatchingPatternWins ==
    Returned("generate_sql") =>
        \/ ret.value.sql = <<>>
        \/ ret.value.sql \in StatementsOfPattern(FirstMatchingPattern(Lower(arg)))

(***************************************************************************)
(* C15                                                                     *)
(***************************************************************************)
\* the result is a match: a statement, confidence 0.9, method rule_based
IsMatch(value) ==
    /\ value.sql # <<>>
    /\ value.confidence = Frac(9, 10)
    /\ "method" \in DOMAIN value
    /\ value.method = "rule_based"
    /\ "error" \notin DOMAIN value

\* the result is a miss: no statement, confidence 0 and an error reason
IsMiss(value) ==
    /\ value.sql = <<>>
    /\ value.confidence = Frac(0, 1)
    /\ "error" \in DOMAIN value
    /\ value.error # ""
    /\ "method" \notin DOMAIN value

\* what the two shapes say of a result
ShapeOf(value) ==
    [sql |-> value.sql, confidence |-> value.confidence,
     method |-> IF "method" \in DOMAIN value THEN value.method ELSE "",
     error |-> IF "error" \in DOMAIN value THEN value.error ELSE ""]

\* C15: generate_sql returns a match (a statement, confidence 0.9, method
\* rule_based) or a miss (no statement, confidence 0, an error reason, which is
\* "No matching pattern" when no pattern matched); the statement is empty
\* exactly when the confidence is 0, and a text given again gets the result it
\* got before.
C15_MatchOrMiss ==
    Returned("generate_sql") =>
        /\ IsMatch(ret.value) \/ IsMiss(ret.value)
        /\ ret.value.confidence \in {Frac(0, 1), Frac(9, 10)}
        /\ (ret.value.sql = <<>> <=> ret.value.confidence = Frac(0, 1))
        /\ (FirstMatchingPattern(Lower(arg)) = 0
                => IsMiss(ret.value) /\ ret.value.error = "No matching pattern")
        /\ (previous.op = "generate_sql" /\ previous.arg = arg
                => ShapeOf(ret.value) = ShapeOf(previous.value))

\* the text of the scenario was translated a second time
C15_Witness ==
    /\ Returned("generate_sql")
    /\ arg = Q_CrimesGuntur
    /\ previous.op = "generate_sql"
    /\ previous.arg = arg
    /\ IsMatch(ret.value)
    /\ IsMatch(previous.value)

NextTranslator ==
    \/ \E text \in Texts : CallGenerateSql(text)
    \/ \E world \in ParserBehaviours : DoGenerateSql(world)
    \/ AgentReturn

SpecTranslator == Init /\ [][NextTranslator]_vars

(***************************************************************************)
(* QueryAgent._enhance_with_schema                                         *)
(***************************************************************************)
\* the first position from p on that holds no white space, Len(s) + 1 if none
NonSpaceFrom(s, p) ==
    IF \E q \in p..Len(s) : ~IsSpace(s[q])
    THEN CHOOSE q \in p..Len(s) : ~IsSpace(s[q]) /\ \A h \in p..(q - 1) : IsSpace(s[h])
    ELSE Len(s) + 1

\* r'(?:FROM|JOIN)\s+([A-Za-z_][A-Za-z0-9_]*)' with re.IGNORECASE matches at
\* position j: the keyword, white space, and the first character of a name
TableNameMatchAt(sql, sql_upper, j) ==
    /\ Occurs(sql_upper, W_FROM, j) \/ Occurs(sql_upper, W_JOIN, j)
    /\ j + 4 <= Len(sql)
    /\ IsSpace(sql[j + 4])
    /\ NonSpaceFrom(sql, j + 4) <= Len(sql)
    /\ LET c == sql[NonSpaceFrom(sql, j + 4)] IN IsLetter(c) \/ c = "_"

\* re.findall from position i on: the names captured, left to right, each
\* search starting where the match before ended
RECURSIVE TableNamesFrom(_, _, _)
TableNamesFrom(sql, sql_upper, i) ==
    LET Captured(p, e) == {SubSeq(sql, p, e)} \cup TableNamesFrom(sql, sql_upper, e + 1)
        Named(p) == Captured(p, RunEnd(sql, p, "word"))
        Found(j) == Named(NonSpaceFrom(sql, j + 4))
        Matches(at) ==
            IF at = {} THEN {} ELSE Found(CHOOSE j \in at : \A h \in at : j <= h)
    IN  Matches({j \in i..Len(sql) : TableNameMatchAt(sql, sql_upper, j)})

\* _extract_table_names(sql): list(set(matches)), as the set
ExtractTableNames(sql) == TableNamesFrom(sql, Upper(sql), 1)

Tbl_FIR == <<"F","I","R">>
Tbl_DISTRICT_MASTER == <<"D","I","S","T","R","I","C","T","_","M","A","S","T","E","R">>
Tbl_CRIME_TYPE_MASTER == <<"C","R","I","M","E","_","T","Y","P","E","_","M","A","S","T","E","R">>
Tbl_OFFICER_MASTER == <<"O","F","F","I","C","E","R","_","M","A","S","T","E","R">>
Tbl_ARREST == <<"A","R","R","E","S","T">>

Col_district_id == <<"d","i","s","t","r","i","c","t","_","i","d">>
Col_crime_type_id == <<"c","r","i","m","e","_","t","y","p","e","_","i","d">>
Col_officer_id == <<"o","f","f","i","c","e","r","_","i","d">>

\* 'f.district_id = d.district_id'
Cond_FirDistrict ==
    <<"f",".","d","i","s","t","r","i","c","t","_","i","d"," ","="," ","d",".","d","i","s","t",
      "r","i","c","t","_","i","d">>

\* 'f.crime_type_id = ct.crime_type_id'
Cond_FirCrimeType ==
    <<"f",".","c","r","i","m","e","_","t","y","p","e","_","i","d"," ","="," ","c","t",".","c",
      "r","i","m","e","_","t","y","p","e","_","i","d">>

\* 'o.officer_id = a.officer_id'
Cond_OfficerArrest ==
    <<"o",".","o","f","f","i","c","e","r","_","i","d"," ","="," ","a",".","o","f","f","i","c",
      "e","r","_","i","d">>

\* SchemaCatalog: the tables with the columns that more than one of them holds,
\* and the join hints {from_table, to_table, condition}, with the tables,
\* columns and conditions that the translator's statements use
SchemaCatalog ==
    [tables |-> << [name |-> Tbl_FIR, columns |-> {Col_district_id, Col_crime_type_id}],
                   [name |-> Tbl_DISTRICT_MASTER, columns |-> {Col_district_id}],
                   [name |-> Tbl_CRIME_TYPE_MASTER, columns |-> {Col_crime_type_id}],
                   [name |-> Tbl_OFFICER_MASTER, columns |-> {Col_officer_id}],
                   [name |-> Tbl_ARREST, columns |-> {Col_officer_id}] >>,
     join_hints |-> << [from_table |-> Tbl_FIR, to_table |-> Tbl_DISTRICT_MASTER,
                        condition |-> Cond_FirDistrict],
                       [from_table |-> Tbl_FIR, to_table |-> Tbl_CRIME_TYPE_MASTER,
                        condition |-> Cond_FirCrimeType],
                       [from_table |-> Tbl_OFFICER_MASTER, to_table |-> Tbl_ARREST,
                        condition |-> Cond_OfficerArrest] >>]

\* the names of the catalogue among the tables mentioned, whatever their case
Mentioned(tables) == {Upper(t) : t \in tables}

\* schema_manager.suggest_joins_for_query(tables): the hints of the catalogue,
\* in its order, for the pairs of tables that are both mentioned
SuggestJoinsForQuery(tables) ==
    SelectAt(SchemaCatalog.join_hints,
             {k \in 1..Len(SchemaCatalog.join_hints) :
                /\ SchemaCatalog.join_hints[k].from_table \in Mentioned(tables)
                /\ SchemaCatalog.join_hints[k].to_table \in Mentioned(tables)})

\* _add_join_to_sql(sql, join): the clause ' JOIN <to_table> ON <condition>' is
\* appended
AddJoinToSql(sql, join) ==
    sql \o <<" ","J","O","I","N"," ">> \o join.to_table
        \o <<" ","O","N"," ">> \o join.condition

\* the table of the catalogue, first in its order, that is mentioned and holds
\* the column
OwnerOf(column, tables) ==
    LET owners == {k \in 1..Len(SchemaCatalog.tables) :
                      /\ SchemaCatalog.tables[k].name \in Mentioned(tables)
                      /\ column \in SchemaCatalog.tables[k].columns}
    IN  SchemaCatalog.tables[CHOOSE k \in owners : \A h \in owners : k <= h].name

\* the columns that more than one of the mentioned tables holds
AmbiguousColumns(tables) ==
    {c \in UNION {SchemaCatalog.tables[k].columns : k \in 1..Len(SchemaCatalog.tables)} :
        Cardinality({k \in 1..Len(SchemaCatalog.tables) :
                        /\ SchemaCatalog.tables[k].name \in Mentioned(tables)
                        /\ c \in SchemaCatalog.tables[k].columns}) > 1}

\* the column stands at position j as a name of its own, with no qualifier
UnqualifiedAt(sql, column, j) ==
    /\ Occurs(sql, column, j)
    /\ (j = 1 \/ (~IsWordChar(sql[j - 1]) /\ sql[j - 1] # "."))
    /\ (j + Len(column) > Len(sql) \/ ~IsWordChar(sql[j + Len(column)]))

\* the statement from position i on, with the owner put before every
\* unqualified occurrence of the column
RECURSIVE QualifyFrom(_, _, _, _)
QualifyFrom(sql, column, owner, i) ==
    LET Found(j) ==
            IF j = 0 THEN SubSeq(sql, i, Len(sql))
            ELSE SubSeq(sql, i, j - 1)
                 \o (IF UnqualifiedAt(sql, column, j) THEN owner \o <<".">> ELSE <<>>)
                 \o column \o QualifyFrom(sql, column, owner, j + Len(column))
    IN  Found(FindFrom(sql, column, i))

RECURSIVE QualifyAll(_, _, _)
QualifyAll(sql, columns, tables) ==
    IF columns = {} THEN sql
    ELSE LET c == CHOOSE x \in columns : TRUE
         IN  QualifyAll(QualifyFrom(sql, c, OwnerOf(c, tables), 1), columns \ {c}, tables)

\* _add_table_aliases(sql, tables): every column that is ambiguous across the
\* mentioned tables is qualified where it stands unqualified; a statement of a
\* single table is left as it is
AddTableAliases(sql, tables) == QualifyAll(sql, AmbiguousColumns(tables), tables)

\* a join whose condition is added although the statement may hold it
JoinAlwaysMissing(sql, join) == TRUE

\* join["condition"] not in sql
JoinMissing(sql, join) == ~Contains(join.condition, sql)

\* the loop over join_suggestions, from the k-th on
RECURSIVE ApplyJoins(_, _, _)
ApplyJoins(sql, joins, k) ==
    IF k > Len(joins) THEN sql
    ELSE ApplyJoins(IF JoinMissing(sql, joins[k]) THEN AddJoinToSql(sql, joins[k]) ELSE sql,
                    joins, k + 1)

\* _enhance_with_schema(sql, context)
EnhanceWithSchema(sql) ==
    LET Enhance(mentioned_tables) ==
            AddTableAliases(
                IF Cardinality(mentioned_tables) > 1
                THEN ApplyJoins(sql, SuggestJoinsForQuery(mentioned_tables), 1)
                ELSE sql,
                mentioned_tables)
    IN  Enhance(ExtractTableNames(sql))

\* The statements callers give to _enhance_with_schema
\* 'SELECT district_id FROM FIR f JOIN DISTRICT_MASTER d'
E_Pair ==
    <<"S","E","L","E","C","T"," ","d","i","s","t","r","i","c","t","_","i","d"," ","F","R","O",
      "M"," ","F","I","R"," ","f"," ","J","O","I","N"," ","D","I","S","T","R","I","C","T","_",
      "M","A","S","T","E","R"," ","d">>

\* 'select * from fir f join district_master d where f.fir_id = 1'
E_PairLower ==
    <<"s","e","l","e","c","t"," ","*"," ","f","r","o","m"," ","f","i","r"," ","f"," ","j","o",
      "i","n"," ","d","i","s","t","r","i","c","t","_","m","a","s","t","e","r"," ","d"," ","w",
      "h","e","r","e"," ","f",".","f","i","r","_","i","d"," ","="," ","1">>

\* 'SELECT description FROM FIR f JOIN DISTRICT_MASTER d ON f.district_id = d.district_id JOIN CRIME_TYPE_MASTER ct'
E_Three ==
    <<"S","E","L","E","C","T"," ","d","e","s","c","r","i","p","t","i","o","n"," ","F","R","O",
      "M"," ","F","I","R"," ","f"," ","J","O","I","N"," ","D","I","S","T","R","I","C","T","_",
      "M","A","S","T","E","R"," ","d"," ","O","N"," ","f",".","d","i","s","t","r","i","c","t",
      "_","i","d"," ","="," ","d",".","d","i","s","t","r","i","c","t","_","i","d"," ","J","O",
      "I","N"," ","C","R","I","M","E","_","T","Y","P","E","_","M","A","S","T","E","R"," ","c",
      "t">>

\* 'SELECT officer_id FROM OFFICER_MASTER o LEFT JOIN ARREST a'
E_Officers ==
    <<"S","E","L","E","C","T"," ","o","f","f","i","c","e","r","_","i","d"," ","F","R","O","M",
      " ","O","F","F","I","C","E","R","_","M","A","S","T","E","R"," ","o"," ","L","E","F","T",
      " ","J","O","I","N"," ","A","R","R","E","S","T"," ","a">>

\* statements given first: of one table, of tables whose join condition is
\* missing, and the translator's own
EnhancerStatements ==
    {H_Select, H_SelectUsers, E_Pair, E_PairLower, E_Three, E_Officers}
        \cup TranslatedStatements

\* _enhance_with_schema is a pure function of the statement: computed once for
\* every statement given first
EnhanceFirstOf == [s \in EnhancerStatements |-> EnhanceWithSchema(s)] @@ <<>>

\* and for every result of a first pass
EnhanceWithSchemaOf ==
    EnhanceFirstOf
        @@ [s \in {EnhanceFirstOf[t] : t \in EnhancerStatements} |-> EnhanceWithSchema(s)]

(***************************************************************************)
(* QueryAgent.process and its three kinds of query                         *)
(***************************************************************************)
N_show == <<"s","h","o","w">>
N_display == <<"d","i","s","p","l","a","y">>
N_how_many == <<"h","o","w"," ","m","a","n","y">>

\* _get_query_suggestions(failed_query)
GetQuerySuggestions(failed_query) ==
    LET query_lower == Lower(failed_query)
    IN  <<"Try using simpler language",
          "Specify the exact table or data you're looking for",
          "Include specific date ranges or filters",
          "Use police-specific terms (FIR, SHO, district, etc.)">>
        \o (IF Contains(N_show, query_lower) \/ Contains(N_display, query_lower)
            THEN <<"Try: 'List all crimes in [district name]'">> ELSE <<>>)
        \o (IF Contains(N_count, query_lower) \/ Contains(N_how_many, query_lower)
            THEN <<"Try: 'Count FIRs registered this month'">> ELSE <<>>)
        \o (IF Contains(N_officer, query_lower)
            THEN <<"Try: 'Show arrests made by officer [name]'">> ELSE <<>>)

W_INDEX == <<"I","N","D","E","X">>
W_SELECT_STAR == <<"S","E","L","E","C","T"," ","*">>
W_ORDER_BY == <<"O","R","D","E","R"," ","B","Y">>
W_LIMIT == <<"L","I","M","I","T">>

\* _get_optimization_suggestions(sql)
GetOptimizationSuggestions(sql) ==
    LET Suggest(sql_upper) ==
            (IF Contains(W_WHERE, sql_upper) /\ ~Contains(W_INDEX, sql_upper)
             THEN <<"Consider adding indexes on WHERE clause columns">> ELSE <<>>)
            \o (IF Contains(W_SELECT_STAR, sql_upper)
                THEN <<"Consider selecting specific columns instead of *">> ELSE <<>>)
            \o (IF Contains(W_ORDER_BY, sql_upper) /\ ~Contains(W_LIMIT, sql_upper)
                THEN <<"ORDER BY without LIMIT may impact performance">> ELSE <<>>)
    IN  Suggest(Upper(sql))

\* what a call of the agent leaves: the statements it gave to _validate_query,
\* and the dict returned (raised: an exception left the call instead)
AgentOutcome(statements, raised, value) ==
    [validated |-> statements, raised |-> raised, value |-> value]

\* _validate_query is a pure function of the statement: computed once for
\* every enhanced statement of the translator
ValidateEnhancedOf ==
    [s \in {EnhanceWithSchemaOf[t] : t \in TranslatedStatements} |-> ValidateQuery(s)] @@ <<>>

\* _validate_query(sql) on an enhanced statement, with its except clause
TryValidateEnhanced(sql, world) ==
    IF ParserRaises(world) THEN [ValidateEnhancedOf[sql] EXCEPT !.syntax_valid = FALSE]
    ELSE ValidateEnhancedOf[sql]

\* _generate_standard_query(query_text, context). (estimated_rows and
\* execution_plan, two constants of the dict, are left out.)
GenerateStandardQuery(query_text, world) ==
    LET Enhanced(sql_result, enhanced_sql) ==
            AgentOutcome(<<enhanced_sql>>, FALSE,
                [sql |-> enhanced_sql,
                 original_sql |-> sql_result.sql,
                 confidence |-> sql_result.confidence,
                 method |-> sql_result.method,
                 validation |-> TryValidateEnhanced(enhanced_sql, world),
                 suggested_optimizations |-> GetOptimizationSuggestions(enhanced_sql)])
        Generated(sql_result) ==
            IF ~GetTruthy(sql_result, "valid")
            THEN AgentOutcome(<<>>, FALSE,
                    [sql |-> <<>>,
                     confidence |-> Frac(0, 1),
                     error |-> IF "error" \in DOMAIN sql_result THEN sql_result.error
                               ELSE "SQL generation failed",
                     suggestions |-> GetQuerySuggestions(query_text)])
            ELSE Enhanced(sql_result, EnhanceWithSchemaOf[sql_result.sql])
    IN  Generated(TryGenerateSql(query_text, world))

K_trend == <<"t","r","e","n","d">>
K_compare == <<"c","o","m","p","a","r","e">>
K_top == <<"t","o","p">>

\* the analytical keywords, each with the clause that it adds
AnalyticalKeywords ==
    << [keyword |-> K_trend,
        clause |-> <<" ","G","R","O","U","P"," ","B","Y"," ","1">>],
       [keyword |-> K_compare,
        clause |-> <<" ","G","R","O","U","P"," ","B","Y"," ","1",","," ","2">>],
       [keyword |-> K_top,
        clause |-> <<" ","F","E","T","C","H"," ","F","I","R","S","T"," ","1","0"," ","R","O",
                     "W","S"," ","O","N","L","Y">>] >>

\* the analytical keywords that the text holds, in their order
DetectedKeywords(query_text) ==
    SelectAt(AnalyticalKeywords,
             {k \in 1..Len(AnalyticalKeywords) :
                Contains(AnalyticalKeywords[k].keyword, Lower(query_text))})

\* _parse_complex_query(query_text)
ParseComplexQuery(query_text) == DetectedKeywords(query_text)

\* _identify_analytical_patterns(query_text)
IdentifyAnalyticalPatterns(query_text) == DetectedKeywords(query_text)

\* the statement with the clauses of the detected keywords added, from the
\* k-th on
RECURSIVE AddClauses(_, _, _)
AddClauses(sql, detected, k) ==
    IF k > Len(detected) THEN sql
    ELSE AddClauses(sql \o detected[k].clause, detected, k + 1)

\* _add_complex_features(sql, query_components)
AddComplexFeatures(sql, query_components) == AddClauses(sql, query_components, 1)

\* _add_analytical_features(sql, analytical_patterns)
AddAnalyticalFeatures(sql, analytical_patterns) == AddClauses(sql, analytical_patterns, 1)

\* the dict with "sql" replaced, as {**base_result, "sql": sql} does (the keys
\* that the two kinds add after it are left out)
WithSql(base_result, sql) == [base_result EXCEPT !.sql = sql]

\* _generate_complex_query(query_text, context)
GenerateComplexQuery(query_text, world) ==
    LET Augmented(base) ==
            IF base.value.sql = <<>> THEN base
            ELSE AgentOutcome(base.validated, FALSE,
                    WithSql(base.value,
                            AddComplexFeatures(base.value.sql, ParseComplexQuery(query_text))))
    IN  Augmented(GenerateStandardQuery(query_text, world))

\* _generate_analytical_query(query_text, context)
GenerateAnalyticalQuery(query_text, world) ==
    LET Augmented(base) ==
            IF base.value.sql = <<>> THEN base
            ELSE AgentOutcome(base.validated, FALSE,
                    WithSql(base.value,
                            AddAnalyticalFeatures(base.value.sql,
                                                  IdentifyAnalyticalPatterns(query_text))))
    IN  Augmented(GenerateStandardQuery(query_text, world))

\* the values of input_data["query_type"]
QueryTypes == {"standard", "complex", "analytical", "summary"}

\* process(input_data): the query of the kind asked for; any other kind raises
\* ValueError
Process(query_type, query_text, world) ==
    CASE query_type = "standard" -> GenerateStandardQuery(query_text, world)
      [] query_type = "complex" -> GenerateComplexQuery(query_text, world)
      [] query_type = "analytical" -> GenerateAnalyticalQuery(query_text, world)
      [] OTHER -> AgentOutcome(<<>>, TRUE, [unsupported |-> query_type])

\* a caller awaits query_agent.process({"text": text, "query_type": query_type})
CallProcess(text, query_type) ==
    /\ pc = "idle"
    /\ pc' = "called"
    /\ op' = query_type
    /\ arg' = text
    /\ UNCHANGED <<env, ret, previous, validated>>
    /\ UNCHANGED executor

\* the body of process
DoProcess(world) ==
    /\ pc = "called"
    /\ op \in QueryTypes
    /\ LET Processed(out) ==
               /\ ret' = [raised |-> out.raised, value |-> out.value]
               /\ validated' = out.validated
       IN  Processed(Process(op, arg, world))
    /\ env' = [world |-> world, execution_time |-> 0]
    /\ pc' = "done"
    /\ UNCHANGED <<op, arg, previous>>
    /\ UNCHANGED executor

\* a caller awaits query_agent._enhance_with_schema(sql, {}), with a statement
\* of its own or with the statement that the call before returned
CallEnhance(sql) ==
    /\ pc = "idle"
    /\ pc' = "called"
    /\ op' = "enhance"
    /\ arg' = sql
    /\ UNCHANGED <<env, ret, previous, validated>>
    /\ UNCHANGED executor

\* the body of _enhance_with_schema
DoEnhance ==
    /\ pc = "called"
    /\ op = "enhance"
    /\ ret' = [raised |-> FALSE, value |-> EnhanceWithSchemaOf[arg]]
    /\ pc' = "done"
    /\ UNCHANGED <<op, arg, env, previous, validated>>
    /\ UNCHANGED executor

NextAgent ==
    \/ \E text \in Texts, query_type \in QueryTypes : CallProcess(text, query_type)
    \/ \E world \in ParserBehaviours : DoProcess(world)
    \/ \E sql \in DOMAIN EnhanceWithSchemaOf : CallEnhance(sql)
    \/ DoEnhance
    \/ AgentReturn

SpecAgent == Init /\ [][NextAgent]_vars

(***************************************************************************)
(* C13                                                                     *)
(***************************************************************************)
\* C13: when a complex or an analytical query returns a statement with its
\* validation report, the statement returned is the one that _validate_query
\* was given last in that call: the report is that of the augmented statement.
C13_ReportIsOfStatementReturned ==
    (pc = "done" /\ op \in {"complex", "analytical"} /\ ~ret.raised
        /\ "validation" \in DOMAIN ret.value)
        => (validated # <<>> /\ validated[Len(validated)] = ret.value.sql)

ExampleQueries ==
    {"Try: 'List all crimes in [district name]'",
     "Try: 'Count FIRs registered this month'",
     "Try: 'Show arrests made by officer [name]'"}

\* C17: a result returned for a text whose translation failed carries an error
\* reason that is not empty and, among its suggestions, an example query.
C17_FailureCarriesReasonAndExample ==
    (pc = "done" /\ op \in QueryTypes /\ ~ret.raised /\ "error" \in DOMAIN ret.value)
        => /\ ret.value.error # ""
           /\ \E i \in 1..Len(ret.value.suggestions) :
                  ret.value.suggestions[i] \in ExampleQueries

(***************************************************************************)
(* C18                                                                     *)
(***************************************************************************)
\* the database raises in the call: at engine.connect(), at the ALTER SESSION
\* or at the statement
DatabaseRaises(world) ==
    world.kind = "raise" /\ world.at \in {"connect", "session", "query"}

\* the call that behaves as world does but for the message of the exception
\* that the driver raises
WithDriverMessage(world, detail) == [world EXCEPT !.detail = detail]

\* C18: when the database raises in a call of execute_sql or of process_query,
\* the result returned is the one that the same call returns for any other
\* message of the driver's exception.
C18_ResultIndependentOfDriverMessage ==
    [][(pc = "called" /\ pc' = "done" /\ op \in {"execute_sql", "process_query"}
            /\ DatabaseRaises(env'.world))
        => \A detail \in DriverDetails :
             IF op = "execute_sql"
             THEN ret'.value
                    = ExecuteSqlBody(engine, execution_stats, arg,
                                     WithDriverMessage(env'.world, detail),
                                     env'.execution_time).value
             ELSE \E report \in ReportBehaviours :
                    ret'.value
                      = ProcessQueryBody(engine, execution_stats, arg,
                                         WithDriverMessage(env'.world, detail),
                                         env'.execution_time, report).value]_vars

(***************************************************************************)
(* C19                                                                     *)
(***************************************************************************)
\* the stages of validation, in the order in which the specification runs them
StageOrder == <<"syntax", "command", "injection", "allow_list", "complexity">>

\* the stages that the statement fails, each taken alone: no statement is
\* parsed, a keyword of the denylist or no leading SELECT, an injection
\* pattern, a table off the allow-list, a count above its limit
StagesFailedBy(sql) ==
    LET sql_upper == Strip(Upper(sql))
    IN  (IF ParseAndValidateSqlOf[sql].reason.text = "Failed to parse SQL"
         THEN {"syntax"} ELSE {})
        \cup (IF \/ \E k \in 1..Len(dangerous_keywords) :
                        KeywordHit(sql_upper, dangerous_keywords[k])
                 \/ ~StartsWith(sql_upper, W_SELECT)
              THEN {"command"} ELSE {})
        \cup (IF \E p \in 1..Len(injection_patterns) : PatternHit(sql, injection_patterns[p])
              THEN {"injection"} ELSE {})
        \cup (IF ReadingOf[sql].off_list # {} THEN {"allow_list"} ELSE {})
        \cup (IF JoinCount(sql) > MaxJoins \/ SelectCount(sql) > MaxSelects
              THEN {"complexity"} ELSE {})

StagesFailedOf == [s \in Statements |-> StagesFailedBy(s)] @@ <<>>

\* the stages that fail in the call: sqlparse.parse may also raise
StagesFailed(sql, world) ==
    StagesFailedOf[sql] \cup (IF ParserRaises(world) THEN {"syntax"} ELSE {})

\* the first stage, in the order of the specification, that fails
EarliestStage(failed) ==
    StageOrder[CHOOSE k \in 1..Len(StageOrder) :
                  /\ StageOrder[k] \in failed
                  /\ \A h \in 1..(k - 1) : StageOrder[h] \notin failed]

\* the stage whose reason the error response carries
StageOfReason(error) ==
    CASE error.text \in {"Failed to parse SQL", "SQL parsing error: {str(e)}"} -> "syntax"
      [] error.text \in {"Dangerous keyword '{keyword}' not allowed",
                         "Only SELECT statements are allowed"} -> "command"
      [] error.text = "Potential SQL injection detected: {pattern}" -> "injection"
      [] error.text = "Access to table '{table}' not allowed" -> "allow_list"
      [] error.text \in {"Too many JOINs (max 10 allowed)",
                         "Too many subqueries (max 5 allowed)"} -> "complexity"
      [] OTHER -> "none"

\* C19: a statement that fails more than one stage is rejected by execute_sql
\* with the reason of the stage that comes first in the order syntax, command,
\* injection, allow-list, complexity.
C19_ReasonIsOfEarliestFailingStage ==
    (Returned("execute_sql") /\ engine
        /\ Cardinality(StagesFailed(arg, env.world)) >= 2)
        => /\ ~ret.value.success
           /\ StageOfReason(ret.value.error) = EarliestStage(StagesFailed(arg, env.world))

(***************************************************************************)
(* Calls of execute_sql as tasks of one event loop                         *)
(***************************************************************************)
\* the most tasks created
MaxTasks == 2

\* the statements that the tasks execute
TaskStatements == {H_Select, H_Drop}

\* what the world outside does in the call of a task
TaskBehaviours == {w \in Behaviours : w.detail = <<>> /\ w.rows = <<>>}

\* the await of _execute_with_timeout hands control to the event loop
AwaitAlwaysSuspends == TRUE

\* the await of _execute_with_timeout hands control to the event loop only if
\* the coroutine awaits something that is not ready: its body holds no await
\* (engine.connect and conn.execute are blocking calls), so it never does
AwaitSuspends == FALSE

\* a task created for execute_sql(sql), not yet run
NewTask(sql) ==
    [sql |-> sql, state |-> "pending", world |-> NoEnv.world, in_flight |-> 0,
     execution_time |-> 0, value |-> <<>>]

\* the tasks that are created and have not returned
InFlight == {j \in 1..Len(tasks) : tasks[j].state # "done"}

\* a caller creates a task for execute_sql(sql): asyncio.gather, or a request
\* that arrives while others are served
CreateTask(sql) ==
    /\ Len(tasks) < MaxTasks
    /\ tasks' = Append(tasks, NewTask(sql))
    /\ UNCHANGED <<engine, execution_stats, pc, op, arg, env, sent, ret, calls, recorded,
                   previous, validated>>
    /\ UNCHANGED pool

\* the event loop runs the task from its start to the await of
\* _execute_with_timeout, or to the return before it; it takes a task only
\* when the running one has handed control back
StartTask(i, world) ==
    /\ tasks[i].state = "pending"
    /\ \A j \in 1..Len(tasks) : tasks[j].state = "awaiting" => AwaitSuspends
    /\ LET Started(state, stats, value) ==
               /\ execution_stats' = stats
               /\ tasks' = [tasks EXCEPT ![i] =
                               [@ EXCEPT !.state = state, !.world = world,
                                         !.in_flight = Cardinality(InFlight),
                                         !.value = value]]
           Counted(counted, security_check, parsing_result) ==
               IF ~security_check.valid
               THEN Started("done", counted,
                            Rejected(counted, "Security validation failed: ",
                                     security_check.reason).value)
               ELSE IF ~parsing_result.valid
               THEN Started("done", counted,
                            Rejected(counted, "SQL validation failed: ",
                                     parsing_result.reason).value)
               ELSE Started("awaiting", counted, <<>>)
       IN  IF ~engine
           THEN Started("done", execution_stats,
                        ErrorResponse(Msg("No database connection available", <<>>)))
           ELSE Counted([execution_stats EXCEPT !.total_queries = @ + 1],
                        ValidateSqlSecurityOf[tasks[i].sql],
                        TryParseAndValidateSql(tasks[i].sql, world))
    /\ UNCHANGED <<engine, pc, op, arg, env, sent, ret, calls, recorded, previous, validated>>
    /\ UNCHANGED pool

\* the event loop runs the task from the await to its return, execution_time
\* after its start
ResumeTask(i, execution_time) ==
    /\ tasks[i].state = "awaiting"
    /\ LET Resumed(out) ==
               /\ execution_stats' = out.stats
               /\ sent' = sent \o out.sent
               /\ tasks' = [tasks EXCEPT ![i] =
                               [@ EXCEPT !.state = "done",
                                         !.execution_time = execution_time,
                                         !.value = out.value]]
           Awaited(sql, parsing_result, result) ==
               IF result.raised
               THEN Resumed(HandleException(execution_stats, result.sent, result.error,
                                            execution_time))
               ELSE Resumed(Outcome(UpdateExecutionStats(execution_stats, execution_time, TRUE),
                                    result.sent, FALSE,
                                    [success |-> TRUE,
                                     results |-> result.data,
                                     columns |-> result.columns,
                                     row_count |-> Len(result.data),
                                     execution_time |-> execution_time,
                                     sql_executed |-> sql,
                                     query_type |-> parsing_result.query_type,
                                     tables_accessed |-> parsing_result.tables]))
       IN  Awaited(tasks[i].sql, TryParseAndValidateSql(tasks[i].sql, tasks[i].world),
                   ExecuteWithTimeout(tasks[i].sql, tasks[i].world))
    /\ checked_out' = CheckedOutAfter(checked_out, engine, tasks[i].sql, tasks[i].world)
    /\ UNCHANGED <<engine, pc, op, arg, env, ret, calls, recorded, previous, validated>>

NextTasks ==
    \/ \E sql \in TaskStatements : CreateTask(sql)
    \/ \E i \in 1..Len(tasks), world \in TaskBehaviours : StartTask(i, world)
    \/ \E i \in 1..Len(tasks), execution_time \in Durations : ResumeTask(i, execution_time)

SpecTasks == Init /\ [][NextTasks]_vars

(***************************************************************************)
(* C20                                                                     *)
(***************************************************************************)
\* the statistics after the calls of the tasks made one after the other, in
\* this order from the k-th on, each against the world and with the
\* execution time that it met
RECURSIVE SerialStats(_, _, _)
SerialStats(stats, order, k) ==
    IF k > Len(tasks) THEN stats
    ELSE SerialStats(ExecuteSqlBody(engine, stats, tasks[order[k]].sql, tasks[order[k]].world,
                                    tasks[order[k]].execution_time).stats,
                     order, k + 1)

AllTasksDone == tasks # <<>> /\ \A i \in 1..Len(tasks) : tasks[i].state = "done"

C23_EmptyTextIsClientError ==
    (Returned("process_query") /\ arg = <<>>)
        => /\ ret.raised
           /\ ret.value.status_code = 400
           /\ sent = <<>>

(***************************************************************************)
(* C22                                                                     *)
(***************************************************************************)
\* the keywords that the patterns of _rule_based_generation look for
PatternKeywords ==
    {N_crimes, N_district, N_officer, N_arrest, N_performance, N_fir, N_count, N_today,
     N_month}

\* what the translator reads in a text: the keywords that it contains and the
\* district of the list found first (0 when there is none)
MatchesOf(text) ==
    LET Read(query_lower) ==
            [keywords |-> {n \in PatternKeywords : Contains(n, query_lower)},
             district |-> IF \E i \in 1..Len(districts) : Contains(districts[i], query_lower)
                          THEN CHOOSE i \in 1..Len(districts) :
                                  /\ Contains(districts[i], query_lower)
                                  /\ \A j \in 1..(i - 1) : ~Contains(districts[j], query_lower)
                          ELSE 0]
    IN  Read(Lower(text))

\* the template statements: the district summary with a name of the list, the
\* officer performance statement and the two FIR counts
TemplateStatements == UNION {StatementsOfPattern(k) : k \in 1..3}

\* C22: the statement that generate_sql returns is a template statement or
\* empty, and a text with the keywords and the district of the text translated
\* before gets the statement that text got, whatever else the two hold.
C22_StatementDependsOnMatchesOnly ==
    Returned("generate_sql") =>
        /\ ret.value.sql \in TemplateStatements \cup {<<>>}
        /\ (previous.op = "generate_sql" /\ MatchesOf(previous.arg) = MatchesOf(arg)
                => ret.value.sql = previous.value.sql)

\* the text with a quote, ';', DROP TABLE and a comment token after the text
\* of the scenario
C22_Witness ==
    /\ Returned("generate_sql")
    /\ arg = Q_CrimesGunturInjected
    /\ previous.op = "generate_sql"
    /\ previous.arg = Q_CrimesGuntur
    /\ MatchesOf(previous.arg) = MatchesOf(arg)
    /\ ret.value.sql # <<>>
    /\ ret.value.sql = previous.value.sql

(***************************************************************************)
(* C21                                                                     *)
(***************************************************************************)
\* execute_sql reaches its call of _execute_with_timeout
ReachesDatabase(eng, sql, world) ==
    /\ eng
    /\ ValidateSqlSecurityOf[sql].valid
    /\ TryParseAndValidateSql(sql, world).valid

\* C21: a call of execute_sql in which the database raises (a time-out is an
\* exception of the driver) returns success=false, and as many connections
\* are checked out of the pool after it as before it.
C21_ConnectionReleasedOnFailure ==
    [][(pc = "called" /\ pc' = "done" /\ op = "execute_sql"
            /\ ReachesDatabase(engine, arg, env'.world) /\ DatabaseRaises(env'.world))
        => /\ ~ret'.raised
           /\ ~ret'.value.success
           /\ checked_out' = checked_out]_vars

\* the database raised at the statement, on the connection that the call had
\* acquired, and no connection is checked out
C21_Witness ==
    /\ Returned("execute_sql")
    /\ env.world.kind = "raise"
    /\ env.world.at = "query"
    /\ WasSent(arg)
    /\ ~ret.value.success
    /\ checked_out = 0
====
